---- MODULE Spec2Model ----
(***************************************************************************)
(* The object store controller of longhorn-manager                         *)
(* (controller/object_store_controller.go): one reconcile pass is one      *)
(* action; the cluster resources the pass reads and writes are the state.  *)
(* One ObjectStore key is modelled, reconciled by two controller           *)
(* identities.                                                             *)
(***************************************************************************)
EXTENDS Integers, Sequences, FiniteSets, TLC

VARIABLES
    store,   \* the ObjectStore resource (spec, status, metadata)
    pvc,     \* the PersistentVolumeClaim pvc-<name>
    vol,     \* the Longhorn volume pv-<name>
    pv,      \* the PersistentVolume pv-<name>
    dpl,     \* the Deployment <name>
    svc,     \* the Service <name>
    ings,    \* the endpoints whose Ingress <name>-<endpoint> exists
    last,    \* record of the most recent reconcile pass (NoPass after a cluster change)
    env,     \* number of cluster changes made by others than the controller
    run,     \* passes that issued a write since the cluster last changed
    passes,  \* passes made since the ObjectStore was new (counted in SpecConverge)
    trip,    \* status states visited since the target was set to Stopped while
             \* Running (recorded in SpecRoundTrip)
    queue,   \* the controller's rate-limited work queue (driven in SpecQueue)
    proc     \* the controller process: Run, its workers, the informer caches
             \* and the stop channel (driven in SpecQueue)

vars == <<store, pvc, vol, pv, dpl, svc, ings, last, env, run, passes, trip,
          queue, proc>>

----------------------------------------------------------------------------
(* Bounds *)

\* cluster changes by the environment in one behaviour (a store call that
\* fails is one of them)
MaxEnv == 2
\* store calls that may fail with an opaque error in one pass
MaxFails == 1
\* passes counted in SpecConverge
MaxPasses == 6
\* failed passes of one key in a row (the rate limiter's count) in SpecQueue
MaxRequeues == 2

----------------------------------------------------------------------------
(* Values *)

ControllerIDs == {"A", "B"}
NoOwner == ""

\* longhorn.ObjectStoreState; "" is the empty status of a new object
Unset == ""
StatusStates == {Unset, "Unknown", "Starting", "Running", "Stopping", "Stopped",
                 "Error", "Terminating"}
TargetStates == {Unset, "Running", "Stopped"}

Images == {"v1", "v2"}

\* Spec.Endpoints: the declared public endpoints (each stands for its name
\* and its domain name)
EndpointChoices == {<< >>, <<"d1">>}
\* the implicit cluster-internal endpoint <name>.<namespace>.svc
InternalEndpoint == "svc"

\* *int32 Spec.Replicas of the deployment: Nil, or Ptr(n) pointing to n
Nil == << >>
Ptr(n) == <<n>>
ReplicaValues == {Nil, Ptr(0), Ptr(1), Ptr(2)}

\* the datastore calls a pass can make
Lookups == {"GetObjectStore", "GetVolumeRO", "GetPersistentVolumeClaim", "GetVolume",
            "GetPersistentVolume", "GetDeployment", "GetService", "GetIngress",
            "GetSecret", "GetSetting"}
Writes == {"CreatePersistentVolumeClaim", "CreateVolume", "CreatePersistentVolume",
           "CreateDeployment", "CreateService", "CreateIngress", "UpdateDeployment",
           "RemoveFinalizerForObjectStore", "UpdateObjectStoreStatus"}
Calls == Lookups \cup Writes
Creates == {"CreatePersistentVolumeClaim", "CreateVolume", "CreatePersistentVolume",
            "CreateDeployment", "CreateService", "CreateIngress"}

\* the sets of at most n calls
RECURSIVE SetsUpTo(_)
SetsUpTo(n) ==
    IF n = 0 THEN {{}}
    ELSE LET S == SetsUpTo(n - 1) IN S \cup {F \cup {f} : F \in S, f \in Calls}

FailSets == SetsUpTo(MaxFails)

----------------------------------------------------------------------------
(* Resources *)

NoStore == [exists |-> FALSE, deleting |-> FALSE, finalizer |-> FALSE,
            target |-> Unset, image |-> "v1", uiImage |-> "v1",
            endpoints |-> << >>, state |-> Unset, statusEndpoints |-> << >>]

NewStore(target, eps, fin) ==
    [exists |-> TRUE, deleting |-> FALSE, finalizer |-> fin,
     target |-> target, image |-> "v1", uiImage |-> "v1",
     endpoints |-> eps, state |-> Unset, statusEndpoints |-> << >>]

NoPVC == [exists |-> FALSE, bound |-> FALSE]
NoVolume == [exists |-> FALSE, faulted |-> FALSE, owner |-> NoOwner]
NoPV == [exists |-> FALSE, bound |-> FALSE]
NoDeployment == [exists |-> FALSE, replicas |-> Nil, image |-> "v1", uiImage |-> "v1",
                 statusReplicas |-> 0, available |-> 0, unavailable |-> 0]
NoService == [exists |-> FALSE]

\* Deployment status as the deployment controller reports it
DeploymentObservations ==
    { [statusReplicas |-> 0, available |-> 0, unavailable |-> 0],    \* no pod
      [statusReplicas |-> 1, available |-> 0, unavailable |-> 1],    \* pod not ready
      [statusReplicas |-> 1, available |-> 1, unavailable |-> 0] }   \* pod ready

Status(s) == [state |-> s.state, endpoints |-> s.statusEndpoints]

Cluster == [store |-> store, pvc |-> pvc, vol |-> vol, pv |-> pv, dpl |-> dpl,
            svc |-> svc, ings |-> ings]

NoPass == [kind |-> "none"]

----------------------------------------------------------------------------
(* The context of one pass: the controller identity, the store calls that  *)
(* fail in this pass, the resources as the pass sees and changes them, the *)
(* store calls made (asked), the write calls among them in order (calls),  *)
(* the return value and the exit point.                                    *)

NewContext(id, fails) ==
    [id |-> id, fails |-> fails, store |-> store, pvc |-> pvc, vol |-> vol, pv |-> pv,
     dpl |-> dpl, svc |-> svc, ings |-> ings, asked |-> {}, calls |-> << >>,
     stale |-> {}, conflicts |-> {}, ret |-> "ok", exit |-> "none",
     final |-> Status(store)]

\* a pass whose cache has not yet seen the resources behind the lookups in
\* stale: these lookups answer not-found although the resource exists
StaleContext(id, stale) == [NewContext(id, {}) EXCEPT !.stale = stale]

Failed(c, call) == call \in c.fails
Ask(c, call) == [c EXCEPT !.asked = @ \cup {call}]
Issue(c, call) == [c EXCEPT !.asked = @ \cup {call}, !.calls = Append(@, call)]
Return(c, ret, exit) == [c EXCEPT !.ret = ret, !.exit = exit]
SetState(c, s) == [c EXCEPT !.store.state = s]

\* the answer of a get: the resource, NotFound, or another error
Lookup(c, call, exists) ==
    IF Failed(c, call) THEN "error"
    ELSE IF exists /\ call \notin c.stale THEN "found"
    ELSE "notfound"

\* the answer of a create: the resource, AlreadyExists, or another error
Create(c, call, exists) ==
    IF Failed(c, call) THEN "error" ELSE IF exists THEN "exists" ELSE "created"

\* the create call is issued; an AlreadyExists answer is recorded
IssueCreate(c, call, exists) ==
    LET c1 == Issue(c, call)
    IN  IF Create(c, call, exists) = "exists"
        THEN [c1 EXCEPT !.conflicts = @ \cup {call}]
        ELSE c1

----------------------------------------------------------------------------
(* Health checks *)

checkPVC(c) == c.pvc.bound
\* a persistent volume check that never passes
checkPVNever(c) == FALSE
\* a volume check that passes whatever the robustness
checkVolumeAlways(c) == TRUE
checkVolume(c) == ~c.vol.faulted
checkPV(c) == c.pv.bound

\* UpdateDeployment(d): the write is issued; its error is what the caller gets
UpdateDeployment(c, d) ==
    LET c1 == Issue(c, "UpdateDeployment")
    IN  IF Failed(c, "UpdateDeployment") THEN c1 ELSE [c1 EXCEPT !.dpl = d]

\* the image part of checkDeployment: a container on another image than the
\* spec names is set to it, the deployment is updated (the error of the
\* update is dropped) and the state becomes Starting
checkDeploymentImages(c) ==
    LET d1 == [c.dpl EXCEPT !.image = c.store.image]
        c1 == IF c.dpl.image # c.store.image
              THEN SetState(UpdateDeployment(c, d1), "Starting")
              ELSE c
        \* the second update sends the deployment object the first one changed
        m1 == IF c.dpl.image # c.store.image THEN d1 ELSE c.dpl
        d2 == [m1 EXCEPT !.uiImage = c.store.uiImage]
        c2 == IF m1.uiImage # c.store.uiImage
              THEN SetState(UpdateDeployment(c1, d2), "Starting")
              ELSE c1
    IN  [c2 EXCEPT !.exit = "healthy"]

\* a deployment check that never passes
checkDeploymentNever(c) == [c EXCEPT !.exit = "unhealthy"]

\* checkDeployment: the result is in exit ("healthy" or "unhealthy"); a nil
\* replica count is dereferenced, which panics
checkDeployment(c) ==
    IF c.dpl.replicas = Nil THEN Return(c, "panic", "panic")
    ELSE IF c.dpl.replicas # Ptr(1)
    THEN [UpdateDeployment(c, [c.dpl EXCEPT !.replicas = Ptr(1)])
             EXCEPT !.exit = "unhealthy"]
    ELSE IF c.dpl.statusReplicas = 0 \/ c.dpl.unavailable > 0
    THEN [c EXCEPT !.exit = "unhealthy"]
    ELSE checkDeploymentImages(c)

----------------------------------------------------------------------------
(* Get-or-create, one per dependent resource *)

CreatedPVC == [exists |-> TRUE, bound |-> FALSE]
CreatedVolume == [exists |-> TRUE, faulted |-> FALSE, owner |-> NoOwner]
CreatedPV == [exists |-> TRUE, bound |-> FALSE]
CreatedDeployment(s) ==
    [exists |-> TRUE, replicas |-> Ptr(1), image |-> s.image, uiImage |-> s.uiImage,
     statusReplicas |-> 0, available |-> 0, unavailable |-> 0]
CreatedService == [exists |-> TRUE]

getOrCreatePVC(c) ==
    LET a == Ask(c, "GetPersistentVolumeClaim")
        found == Lookup(a, "GetPersistentVolumeClaim", a.pvc.exists)
        c1 == IssueCreate(a, "CreatePersistentVolumeClaim", a.pvc.exists)
    IN  IF found = "found" THEN a
        ELSE IF found = "error" THEN Return(a, "err", "getOrCreatePVC")
        ELSE IF Create(a, "CreatePersistentVolumeClaim", a.pvc.exists) # "created"
        THEN Return(c1, "err", "getOrCreatePVC")
        ELSE SetState([c1 EXCEPT !.pvc = CreatedPVC], "Starting")

getOrCreateVolume(c) ==
    LET a == Ask(c, "GetVolume")
        found == Lookup(a, "GetVolume", a.vol.exists)
        c1 == IssueCreate(a, "CreateVolume", a.vol.exists)
    IN  IF found = "found" THEN a
        ELSE IF found = "error" THEN Return(a, "err", "getOrCreateVolume")
        ELSE IF Create(a, "CreateVolume", a.vol.exists) # "created"
        THEN Return(c1, "err", "getOrCreateVolume")
        ELSE SetState([c1 EXCEPT !.vol = CreatedVolume], "Starting")

getOrCreatePV(c) ==
    LET a == Ask(c, "GetPersistentVolume")
        found == Lookup(a, "GetPersistentVolume", a.pv.exists)
        c1 == IssueCreate(a, "CreatePersistentVolume", a.pv.exists)
    IN  IF found = "found" THEN a
        ELSE IF found = "error" THEN Return(a, "err", "getOrCreatePV")
        ELSE IF Create(a, "CreatePersistentVolume", a.pv.exists) # "created"
        THEN Return(c1, "err", "getOrCreatePV")
        ELSE SetState([c1 EXCEPT !.pv = CreatedPV], "Starting")

\* createDeployment reads the credential secret (not-found is accepted) and
\* the registry secret setting before it creates
createDeployment(c) ==
    LET a1 == Ask(c, "GetSecret")
        a2 == Ask(a1, "GetSetting")
        c1 == IssueCreate(a2, "CreateDeployment", a2.dpl.exists)
    IN  IF Failed(a1, "GetSecret") THEN Return(a1, "err", "getOrCreateDeployment")
        ELSE IF Failed(a2, "GetSetting") THEN Return(a2, "err", "getOrCreateDeployment")
        ELSE IF Create(a2, "CreateDeployment", a2.dpl.exists) # "created"
        THEN Return(c1, "err", "getOrCreateDeployment")
        ELSE [c1 EXCEPT !.dpl = CreatedDeployment(c.store)]

getOrCreateDeployment(c) ==
    LET a == Ask(c, "GetDeployment")
        found == Lookup(a, "GetDeployment", a.dpl.exists)
        c1 == createDeployment(a)
    IN  IF found = "found" THEN a
        ELSE IF found = "error" THEN Return(a, "err", "getOrCreateDeployment")
        ELSE IF c1.ret # "ok" THEN c1
        ELSE SetState(c1, "Starting")

\* a get-or-create that takes every failed lookup for not-found
getOrCreateServiceOnAnyError(c) ==
    LET a == Ask(c, "GetService")
        found == Lookup(a, "GetService", a.svc.exists)
        c1 == IssueCreate(a, "CreateService", a.svc.exists)
    IN  IF found = "found" THEN a
        ELSE IF Create(a, "CreateService", a.svc.exists) # "created"
        THEN Return(c1, "err", "getOrCreateService")
        ELSE SetState([c1 EXCEPT !.svc = CreatedService], "Starting")

getOrCreateService(c) ==
    LET a == Ask(c, "GetService")
        found == Lookup(a, "GetService", a.svc.exists)
        c1 == IssueCreate(a, "CreateService", a.svc.exists)
    IN  IF found = "found" THEN a
        ELSE IF found = "error" THEN Return(a, "err", "getOrCreateService")
        ELSE IF Create(a, "CreateService", a.svc.exists) # "created"
        THEN Return(c1, "err", "getOrCreateService")
        ELSE SetState([c1 EXCEPT !.svc = CreatedService], "Starting")

\* one ingress per declared endpoint, in the order of Spec.Endpoints; the
\* domain name of every ingress created is appended to Status.Endpoints
RECURSIVE getOrCreateS3Endpoints(_, _)
getOrCreateS3Endpoints(c, eps) ==
    IF eps = << >> THEN c
    ELSE LET e == Head(eps)
             a == Ask(c, "GetIngress")
             found == Lookup(a, "GetIngress", e \in a.ings)
             c1 == IssueCreate(a, "CreateIngress", e \in a.ings)
         IN  IF found = "found" THEN getOrCreateS3Endpoints(a, Tail(eps))
             ELSE IF found = "error" THEN Return(a, "err", "getOrCreateS3Endpoints")
             ELSE IF Create(a, "CreateIngress", e \in a.ings) = "error"
             THEN Return(SetState(c1, "Error"), "err", "getOrCreateS3Endpoints")
             ELSE getOrCreateS3Endpoints(
                      [c1 EXCEPT !.ings = @ \cup {e},
                                 !.store.statusEndpoints = Append(@, e)],
                      Tail(eps))

----------------------------------------------------------------------------
(* The handlers of the state machine *)

\* if there are no public endpoints, add the implicit cluster-internal one
AddInternalEndpoint(c) ==
    IF Len(c.store.statusEndpoints) = 0
    THEN [c EXCEPT !.store.statusEndpoints = Append(@, InternalEndpoint)]
    ELSE c

\* the get-or-creates out of order: the service before the deployment
handleStartingServiceFirst(c) ==
    LET c1 == getOrCreatePVC(c)
        c2 == getOrCreateVolume(c1)
        c3 == getOrCreatePV(c2)
        c4 == getOrCreateService(c3)
        c5 == getOrCreateDeployment(c4)
        c6 == getOrCreateS3Endpoints(c5, c5.store.endpoints)
        c7 == AddInternalEndpoint(c6)
        c8 == checkDeployment(c7)
    IN  IF c1.ret # "ok" THEN c1
        ELSE IF c2.ret # "ok" THEN c2
        ELSE IF c3.ret # "ok" THEN c3
        ELSE IF c4.ret # "ok" THEN c4
        ELSE IF c5.ret # "ok" THEN c5
        ELSE IF c6.ret # "ok" THEN c6
        ELSE IF ~checkPVC(c7) THEN Return(c7, "ok", "waitPVC")
        ELSE IF ~checkVolume(c7) THEN Return(c7, "ok", "waitVolume")
        ELSE IF ~checkPV(c7) THEN Return(c7, "ok", "waitPV")
        ELSE IF c8.ret = "panic" THEN c8
        ELSE IF c8.exit = "unhealthy" THEN Return(c8, "ok", "waitDeployment")
        ELSE Return(SetState(c8, "Running"), "ok", "running")

handleStarting(c) ==
    LET c1 == getOrCreatePVC(c)
        c2 == getOrCreateVolume(c1)
        c3 == getOrCreatePV(c2)
        c4 == getOrCreateDeployment(c3)
        c5 == getOrCreateService(c4)
        c6 == getOrCreateS3Endpoints(c5, c5.store.endpoints)
        c7 == AddInternalEndpoint(c6)
        c8 == checkDeployment(c7)
    IN  IF c1.ret # "ok" THEN c1
        ELSE IF c2.ret # "ok" THEN c2
        ELSE IF c3.ret # "ok" THEN c3
        ELSE IF c4.ret # "ok" THEN c4
        ELSE IF c5.ret # "ok" THEN c5
        ELSE IF c6.ret # "ok" THEN c6
        ELSE IF ~checkPVC(c7) THEN Return(c7, "ok", "waitPVC")
        ELSE IF ~checkVolume(c7) THEN Return(c7, "ok", "waitVolume")
        ELSE IF ~checkPV(c7) THEN Return(c7, "ok", "waitPV")
        ELSE IF c8.ret = "panic" THEN c8
        ELSE IF c8.exit = "unhealthy" THEN Return(c8, "ok", "waitDeployment")
        ELSE Return(SetState(c8, "Running"), "ok", "running")

\* a failed lookup or health check that sets Error and returns success
RunningErrorSilent(c, exit) == Return(SetState(c, "Error"), "ok", exit)

\* a failed lookup or health check that returns the error and leaves the
\* state as it is
RunningErrorKeepsState(c, exit) == Return(c, "err", exit)

\* a failed lookup or health check: state Error and the error is returned
RunningError(c, exit) == Return(SetState(c, "Error"), "err", exit)

handleRunning(c) ==
    LET a1 == Ask(c, "GetDeployment")
        c1 == checkDeployment(a1)
        a2 == Ask(c1, "GetService")
        a3 == Ask(a2, "GetPersistentVolumeClaim")
        a4 == Ask(a3, "GetVolume")
        a5 == Ask(a4, "GetPersistentVolume")
    IN  IF c.store.target = "Stopped"
        THEN Return(SetState(c, "Stopping"), "ok", "stopping")
        ELSE IF Lookup(a1, "GetDeployment", a1.dpl.exists) # "found"
        THEN RunningError(a1, "findDeployment")
        ELSE IF c1.ret = "panic" THEN c1
        ELSE IF c1.exit = "unhealthy" THEN RunningError(c1, "checkDeployment")
        ELSE IF Lookup(a2, "GetService", a2.svc.exists) # "found"
        THEN RunningError(a2, "findService")
        ELSE IF Lookup(a3, "GetPersistentVolumeClaim", a3.pvc.exists) # "found"
        THEN RunningError(a3, "findPVC")
        ELSE IF ~checkPVC(a3) THEN RunningError(a3, "checkPVC")
        ELSE IF Lookup(a4, "GetVolume", a4.vol.exists) # "found"
        THEN RunningError(a4, "findVolume")
        ELSE IF ~checkVolume(a4) THEN RunningError(a4, "checkVolume")
        ELSE IF Lookup(a5, "GetPersistentVolume", a5.pv.exists) # "found"
        THEN RunningError(a5, "findPV")
        ELSE IF ~checkPV(a5) THEN RunningError(a5, "checkPV")
        ELSE Return(a5, "ok", "healthy")

\* a Stopping handler that waits without scaling the deployment down
handleStoppingNoScale(c) ==
    LET a == Ask(c, "GetDeployment")
    IN  IF Lookup(a, "GetDeployment", a.dpl.exists) # "found"
        THEN Return(SetState(a, "Error"), "err", "findDeployment")
        ELSE IF a.dpl.available > 0 \/ a.dpl.replicas # Ptr(0)
        THEN Return(a, "ok", "waitShutdown")
        ELSE Return(SetState(a, "Stopped"), "ok", "stopped")

handleStopping(c) ==
    LET a == Ask(c, "GetDeployment")
        c1 == UpdateDeployment(a, [a.dpl EXCEPT !.replicas = Ptr(0)])
    IN  IF Lookup(a, "GetDeployment", a.dpl.exists) # "found"
        THEN Return(SetState(a, "Error"), "err", "findDeployment")
        ELSE IF a.dpl.replicas # Nil /\ a.dpl.replicas # Ptr(0)
        THEN Return(c1, IF Failed(a, "UpdateDeployment") THEN "err" ELSE "ok",
                    "scaleDown")
        ELSE IF a.dpl.available > 0 THEN Return(a, "ok", "waitShutdown")
        ELSE Return(SetState(a, "Stopped"), "ok", "stopped")

\* a Stopped handler that declares Running without passing through Starting
handleStoppedToRunning(c) ==
    IF c.store.target = "Running"
    THEN Return(SetState(c, "Running"), "ok", "starting")
    ELSE Return(c, "ok", "stopped")

\* a Stopped handler that takes every target state but Stopped as a request
\* to run and declares the ObjectStore Running
handleStoppedDeclaresRunning(c) ==
    IF c.store.target # "Stopped"
    THEN Return(SetState(c, "Running"), "ok", "starting")
    ELSE Return(c, "ok", "stopped")

handleStopped(c) ==
    IF c.store.target = "Running"
    THEN Return(SetState(c, "Starting"), "ok", "starting")
    ELSE Return(c, "ok", "stopped")

\* handleTerminating: remove the finalizer, then wait for the dependents to
\* be deleted. A dependent that is still found ends the pass with nil, a
\* lookup error is returned, and only when the five lookups answer not-found
\* the end of the handler is reached.
\* a wait that reaches the end of the handler whatever the lookups answer
waitForNothing(c, lookups) == Return(c, "ok", "terminated")

RECURSIVE waitForDependents(_, _)
waitForDependents(c, lookups) ==
    IF lookups = << >> THEN Return(c, "ok", "terminated")
    ELSE LET a == Ask(c, Head(lookups).call)
             found == Lookup(a, Head(lookups).call, Head(lookups).exists)
         IN  IF found = "found" THEN Return(a, "ok", "waitCascade")
             ELSE IF found = "error" THEN Return(a, "err", "waitCascade")
             ELSE waitForDependents(a, Tail(lookups))

TerminatingLookups(c) ==
    << [call |-> "GetService", exists |-> c.svc.exists],
       [call |-> "GetDeployment", exists |-> c.dpl.exists],
       [call |-> "GetPersistentVolumeClaim", exists |-> c.pvc.exists],
       [call |-> "GetPersistentVolume", exists |-> c.pv.exists],
       [call |-> "GetVolume", exists |-> c.vol.exists] >>

\* a termination that deletes the dependents itself with the finalizer
handleTerminatingDeletes(c) ==
    LET c1 == Issue(c, "RemoveFinalizerForObjectStore")
    IN  IF c.store.finalizer
        THEN Return([c1 EXCEPT !.store.finalizer = FALSE, !.svc = NoService,
                               !.dpl = NoDeployment],
                    "ok", "removeFinalizer")
        ELSE Return(c, "ok", "terminated")

handleTerminating(c) ==
    LET c1 == Issue(c, "RemoveFinalizerForObjectStore")
    IN  IF c.store.finalizer
        THEN IF Failed(c1, "RemoveFinalizerForObjectStore")
             THEN Return(c1, "err", "removeFinalizer")
             ELSE Return([c1 EXCEPT !.store.finalizer = FALSE], "ok", "removeFinalizer")
        ELSE waitForDependents(c, TerminatingLookups(c))

\* an initialization that goes on to create the dependents in the same pass
initializeAndStart(c) ==
    IF c.store.target # "Stopped"
    THEN handleStarting(SetState(c, "Starting"))
    ELSE Return(c, "ok", "initialized")

\* an initialization that does not look at the target state
initializeAnyTarget(c) == Return(SetState(c, "Starting"), "ok", "initialized")

initializeObjectStore(c) ==
    IF c.store.target # "Stopped"
    THEN Return(SetState(c, "Starting"), "ok", "initialized")
    ELSE Return(c, "ok", "initialized")

----------------------------------------------------------------------------
(* The responsibility check and the reconcile entry point *)

\* a responsibility check that ignores the owner of the volume
isAlwaysResponsible(c) == TRUE

isResponsibleFor(c) ==
    LET found == Lookup(c, "GetVolumeRO", c.vol.exists)
    IN  IF found = "notfound" THEN TRUE
        ELSE IF found = "error" THEN FALSE
        ELSE c.id = c.vol.owner

\* a dispatch that looks at the deletion timestamp only after the state
\* Starting or Error
dispatchStartsBeforeDeletion(c) ==
    IF c.store.state \in {"Starting", "Error"} THEN handleStarting(c)
    ELSE IF c.store.deleting
    THEN IF c.store.state # "Terminating"
         THEN Return(SetState(c, "Terminating"), "ok", "terminating")
         ELSE handleTerminating(c)
    ELSE IF c.store.state = "Running" THEN handleRunning(c)
    ELSE IF c.store.state = "Stopping" THEN handleStopping(c)
    ELSE IF c.store.state = "Stopped" THEN handleStopped(c)
    ELSE initializeObjectStore(c)

\* a dispatch that runs the termination handler as soon as the deletion
\* timestamp is set
dispatchTerminatesAtOnce(c) ==
    IF c.store.deleting
    THEN handleTerminating(SetState(c, "Terminating"))
    ELSE IF c.store.state \in {"Starting", "Error"} THEN handleStarting(c)
    ELSE IF c.store.state = "Running" THEN handleRunning(c)
    ELSE IF c.store.state = "Stopping" THEN handleStopping(c)
    ELSE IF c.store.state = "Stopped" THEN handleStopped(c)
    ELSE initializeObjectStore(c)

\* the dispatch on the deletion timestamp and the current state
dispatch(c) ==
    IF c.store.deleting
    THEN IF c.store.state # "Terminating"
         THEN Return(SetState(c, "Terminating"), "ok", "terminating")
         ELSE handleTerminating(c)
    ELSE IF c.store.state \in {"Starting", "Error"} THEN handleStarting(c)
    ELSE IF c.store.state = "Running" THEN handleRunning(c)
    ELSE IF c.store.state = "Stopping" THEN handleStopping(c)
    ELSE IF c.store.state = "Stopped" THEN handleStopped(c)
    ELSE initializeObjectStore(c)

\* a deferred function that writes the status whether it changed or not
updateStatusAlways(c0, c) == Issue(c, "UpdateObjectStoreStatus")

\* a deferred function that leaves the status unwritten when the pass
\* returns an error
updateStatusOnSuccess(c0, c) ==
    IF Status(c.store) = Status(c0.store) \/ c.ret # "ok"
    THEN [c EXCEPT !.final = Status(c.store),
                   !.store.state = c0.store.state,
                   !.store.statusEndpoints = c0.store.statusEndpoints]
    ELSE [Issue(c, "UpdateObjectStoreStatus") EXCEPT !.final = Status(c.store)]

\* the deferred function: the status is written if it differs from the
\* snapshot c0; the error of the write is assigned to a local and not
\* returned, and a failed write leaves the stored status as it was
updateStatusIfChanged(c0, c) ==
    IF Status(c.store) = Status(c0.store) THEN c
    ELSE LET c1 == [Issue(c, "UpdateObjectStoreStatus") EXCEPT !.final = Status(c.store)]
         IN  IF Failed(c1, "UpdateObjectStoreStatus")
             THEN [c1 EXCEPT !.store.state = c0.store.state,
                             !.store.statusEndpoints = c0.store.statusEndpoints]
             ELSE c1

\* an entry point that returns the not-found error of the lookup
reconcileNotFoundIsError(c) ==
    LET a1 == Ask(c, "GetObjectStore")
        a2 == Ask(a1, "GetVolumeRO")
    IN  IF Lookup(a1, "GetObjectStore", a1.store.exists) # "found"
        THEN Return(a1, "err", "getObjectStore")
        ELSE IF ~isResponsibleFor(a2) THEN Return(a2, "ok", "notResponsible")
        ELSE updateStatusIfChanged(a2, dispatch(a2))

reconcile(c) ==
    LET a1 == Ask(c, "GetObjectStore")
        found == Lookup(a1, "GetObjectStore", a1.store.exists)
        a2 == Ask(a1, "GetVolumeRO")
    IN  IF found = "error" THEN Return(a1, "err", "getObjectStore")
        ELSE IF found = "notfound" THEN Return(a1, "ok", "deleted")
        ELSE IF ~isResponsibleFor(a2) THEN Return(a2, "ok", "notResponsible")
        ELSE updateStatusIfChanged(a2, dispatch(a2))

----------------------------------------------------------------------------
(* Observations of the cluster *)

DeploymentReady(d, s) ==
    /\ d.replicas = Ptr(1)
    /\ d.statusReplicas > 0
    /\ d.unavailable = 0
    /\ d.image = s.image
    /\ d.uiImage = s.uiImage

Range(seq) == {seq[i] : i \in 1..Len(seq)}

AllDependentsExist ==
    /\ pvc.exists /\ vol.exists /\ pv.exists /\ dpl.exists /\ svc.exists
    /\ Range(store.endpoints) \subseteq ings

NoDependentExists ==
    /\ ~pvc.exists /\ ~vol.exists /\ ~pv.exists /\ ~dpl.exists /\ ~svc.exists
    /\ ings = {}

\* every dependent that exists is healthy, and the volume is owned by id
ExistingHealthyFor(id) ==
    /\ pvc.exists => pvc.bound
    /\ vol.exists => ~vol.faulted /\ vol.owner = id
    /\ pv.exists => pv.bound
    /\ dpl.exists => DeploymentReady(dpl, store)

TripStates == <<"Running", "Stopping", "Stopped", "Starting", "Running">>

----------------------------------------------------------------------------
(* Initial states: no ObjectStore, a new ObjectStore with an empty status, *)
(* or an ObjectStore that is Running or Stopped with all its dependents.   *)

PublishedEndpoints(eps) == IF eps = << >> THEN <<InternalEndpoint>> ELSE eps

InitNothing ==
    /\ pvc = NoPVC /\ vol = NoVolume /\ pv = NoPV /\ dpl = NoDeployment
    /\ svc = NoService /\ ings = {}

InitNew(targets) ==
    /\ store \in {NewStore(t, eps, TRUE) : t \in targets, eps \in EndpointChoices}
    /\ InitNothing

InitSettled(targets, states) ==
    /\ \E t \in targets, eps \in EndpointChoices, st \in states :
         /\ store = [NewStore(t, eps, TRUE) EXCEPT !.state = st,
                        !.statusEndpoints = PublishedEndpoints(eps)]
         /\ ings = Range(eps)
         /\ dpl = [exists |-> TRUE,
                   replicas |-> IF st = "Running" THEN Ptr(1) ELSE Ptr(0),
                   image |-> "v1", uiImage |-> "v1",
                   statusReplicas |-> IF st = "Running" THEN 1 ELSE 0,
                   available |-> IF st = "Running" THEN 1 ELSE 0,
                   unavailable |-> 0]
    /\ pvc = [exists |-> TRUE, bound |-> TRUE]
    /\ vol = [exists |-> TRUE, faulted |-> FALSE, owner |-> "A"]
    /\ pv = [exists |-> TRUE, bound |-> TRUE]
    /\ svc = [exists |-> TRUE]

\* an ObjectStore whose status says Stopping and that has no dependent
InitStopping(targets) ==
    /\ \E t \in targets :
         store = [NewStore(t, << >>, TRUE) EXCEPT !.state = "Stopping",
                     !.statusEndpoints = <<InternalEndpoint>>]
    /\ InitNothing

\* an ObjectStore whose status the API server filled with the default
\* state Unknown and that has no dependent
InitUnknown(targets) ==
    /\ \E t \in targets :
         store = [NewStore(t, << >>, TRUE) EXCEPT !.state = "Unknown"]
    /\ InitNothing

(* The work queue and the controller process.                              *)
(* The queue is the rate-limited work queue the constructor creates; the   *)
(* controller uses its Add, Get, Done, Forget, AddRateLimited and ShutDown.*)
(* items is the pending keys in order, dirty the keys that need a pass,    *)
(* processing the keys handed to a worker and not yet done, failures the   *)
(* rate limiter's count of requeues per key, waiting the keys whose        *)
(* rate-limited add has not yet elapsed.                                   *)

StoreKey == "default/store"     \* the key of the ObjectStore of the model
OtherKey == "default/other"     \* a key that names no ObjectStore
Keys == {StoreKey, OtherKey}
NoKey == "none"
Workers == {"w1", "w2"}
ControllerID == "A"

NewQueue ==
    [items |-> << >>, dirty |-> {}, processing |-> {},
     failures |-> [k \in Keys |-> 0], waiting |-> {}, shuttingDown |-> FALSE]

Queued(q) == {q.items[i] : i \in 1..Len(q.items)}

\* Add: ignored after shutdown and for a key that is already dirty; a key
\* being processed is only marked dirty and queued again by Done
Add(q, k) ==
    IF q.shuttingDown \/ k \in q.dirty THEN q
    ELSE IF k \in q.processing THEN [q EXCEPT !.dirty = @ \cup {k}]
    ELSE [q EXCEPT !.dirty = @ \cup {k}, !.items = Append(@, k)]

\* Get hands out the first pending key; with nothing pending it blocks, or
\* reports quit once the queue is shut down
CanGet(q) == q.items # << >>
GetQuits(q) == q.items = << >> /\ q.shuttingDown
Get(q) ==
    [q EXCEPT !.items = Tail(@),
              !.processing = @ \cup {Head(q.items)},
              !.dirty = @ \ {Head(q.items)}]

\* Done: the key is no longer processed; if it was marked dirty meanwhile it
\* becomes pending again
Done(q, k) ==
    IF k \in q.dirty
    THEN [q EXCEPT !.processing = @ \ {k}, !.items = Append(@, k)]
    ELSE [q EXCEPT !.processing = @ \ {k}]

Forget(q, k) == [q EXCEPT !.failures[k] = 0]

\* AddRateLimited: the rate limiter counts the requeue and the key is added
\* once its delay has elapsed (AddAfterElapsed); dropped after shutdown
AddRateLimited(q, k) ==
    [q EXCEPT !.failures[k] = @ + 1,
              !.waiting = IF q.shuttingDown THEN @ ELSE @ \cup {k}]

ShutDown(q) == [q EXCEPT !.shuttingDown = TRUE]

\* The process: cacheSyncs is true once every informer cache has synced,
\* stopCh once the stop channel is closed; Run and each worker goroutine have
\* a position, a worker holds the key it got and the result of its pass:
\* err the error returned, lost whether its status update failed.
InitProc ==
    [cacheSyncs |-> FALSE, stopCh |-> FALSE, Run |-> "waitSync",
     worker |-> [w \in Workers |-> "idle"],
     key |-> [w \in Workers |-> NoKey],
     err |-> [w \in Workers |-> FALSE],
     lost |-> [w \in Workers |-> FALSE],
     heldAtStop |-> {}]

----------------------------------------------------------------------------
InitBookkeeping ==
    /\ last = NoPass
    /\ queue = NewQueue
    /\ proc = InitProc
    /\ env = 0
    /\ run = 0
    /\ passes = 0
    /\ trip = << >>

Init ==
    /\ \/ store = NoStore /\ InitNothing
       \/ InitNew(TargetStates)
       \/ InitSettled(TargetStates, {"Running", "Stopped"})
       \/ InitStopping(TargetStates)
       \/ InitUnknown(TargetStates)
    /\ InitBookkeeping

----------------------------------------------------------------------------
(* One reconcile pass of controller id, in which the store calls in fails  *)
(* answer with an error: every one of them is a call the pass makes        *)

ReconcileFrom(c0) ==
    LET c == reconcile(c0)
        id == c0.id
        fails == c0.fails
    IN  /\ fails \subseteq c.asked
        /\ store' = c.store
        /\ pvc' = c.pvc
        /\ vol' = c.vol
        /\ pv' = c.pv
        /\ dpl' = c.dpl
        /\ svc' = c.svc
        /\ ings' = c.ings
        /\ last' = [kind |-> "pass", id |-> id, fails |-> fails, pre |-> Cluster,
                    ret |-> c.ret, exit |-> c.exit, asked |-> c.asked,
                    calls |-> c.calls, stale |-> c0.stale,
                    conflicts |-> c.conflicts, final |-> c.final,
                    second |-> /\ last.kind = "pass"
                               /\ last.id = id
                               /\ last.fails = {}
                               /\ fails = {},
                    settled |-> /\ last.kind = "pass"
                                /\ last.id = id
                                /\ last.fails = {}
                                /\ last.calls = << >>
                                /\ fails = {}]

Reconcile(id, fails) == ReconcileFrom(NewContext(id, fails))

\* the sets of failing calls of which the pass makes at least one
CandidateFails(id) ==
    LET asked == reconcile(NewContext(id, {})).asked
    IN  {F \in FailSets : F = {} \/ F \cap asked # {}}

\* Spec: any controller, any failing call
Pass ==
    /\ \E id \in ControllerIDs :
         \E fails \in CandidateFails(id) : Reconcile(id, fails)
    /\ run' = IF last'.fails # {} THEN 0
              ELSE IF last'.calls # << >> THEN run + 1
              ELSE run
    /\ env' = IF last'.fails # {} THEN env + 1 ELSE env
    /\ env' <= MaxEnv
    /\ UNCHANGED <<passes, trip, queue, proc>>

----------------------------------------------------------------------------
(* The environment: users, the API server and the other controllers of the *)
(* cluster change the resources. These are the changes themselves; the     *)
(* actions below add the bookkeeping of each specification.                *)

TargetState(t) ==
    /\ store.exists /\ store.target # t
    /\ store' = [store EXCEPT !.target = t]
    /\ UNCHANGED <<pvc, vol, pv, dpl, svc, ings>>

ClaimPhase(b) ==
    /\ pvc.exists /\ pvc.bound # b
    /\ pvc' = [pvc EXCEPT !.bound = b]
    /\ UNCHANGED <<store, vol, pv, dpl, svc, ings>>

PersistentVolumePhase(b) ==
    /\ pv.exists /\ pv.bound # b
    /\ pv' = [pv EXCEPT !.bound = b]
    /\ UNCHANGED <<store, pvc, vol, dpl, svc, ings>>

VolumeOwner(o) ==
    /\ vol.exists /\ vol.owner # o
    /\ vol' = [vol EXCEPT !.owner = o]
    /\ UNCHANGED <<store, pvc, pv, dpl, svc, ings>>

DeploymentStatus(o) ==
    /\ dpl.exists
    /\ o # [statusReplicas |-> dpl.statusReplicas, available |-> dpl.available,
            unavailable |-> dpl.unavailable]
    /\ dpl' = [dpl EXCEPT !.statusReplicas = o.statusReplicas,
                          !.available = o.available,
                          !.unavailable = o.unavailable]
    /\ UNCHANGED <<store, pvc, vol, pv, svc, ings>>

\* a cluster change in Spec: counted, and it ends the run of passes
Changed ==
    /\ env < MaxEnv
    /\ env' = env + 1
    /\ last' = NoPass
    /\ run' = 0
    /\ UNCHANGED <<passes, trip, queue, proc>>

CreateObjectStore ==
    /\ Changed
    /\ ~store.exists
    /\ \E t \in TargetStates, eps \in EndpointChoices : store' = NewStore(t, eps, TRUE)
    /\ UNCHANGED <<pvc, vol, pv, dpl, svc, ings>>

SetTargetState ==
    /\ Changed
    /\ \E t \in TargetStates : TargetState(t)

\* the user names another image for one of the two containers
UpdateSpecImage ==
    /\ Changed
    /\ store.exists
    /\ \/ \E i \in Images \ {store.image} : store' = [store EXCEPT !.image = i]
       \/ \E i \in Images \ {store.uiImage} : store' = [store EXCEPT !.uiImage = i]
    /\ UNCHANGED <<pvc, vol, pv, dpl, svc, ings>>

\* a delete request: the deletion timestamp is set while a finalizer holds
\* the object, otherwise the object is removed
DeleteObjectStore ==
    /\ Changed
    /\ store.exists /\ ~store.deleting
    /\ store' = IF store.finalizer THEN [store EXCEPT !.deleting = TRUE] ELSE NoStore
    /\ UNCHANGED <<pvc, vol, pv, dpl, svc, ings>>

\* the API server removes an object marked for deletion that has no finalizer
RemoveObjectStore ==
    /\ Changed
    /\ store.exists /\ store.deleting /\ ~store.finalizer
    /\ store' = NoStore
    /\ UNCHANGED <<pvc, vol, pv, dpl, svc, ings>>

\* a dependent is deleted: by the owner-reference cascade or by a user
DeleteDependent ==
    /\ Changed
    /\ \/ pvc.exists /\ pvc' = NoPVC /\ UNCHANGED <<vol, pv, dpl, svc, ings>>
       \/ vol.exists /\ vol' = NoVolume /\ UNCHANGED <<pvc, pv, dpl, svc, ings>>
       \/ pv.exists /\ pv' = NoPV /\ UNCHANGED <<pvc, vol, dpl, svc, ings>>
       \/ dpl.exists /\ dpl' = NoDeployment /\ UNCHANGED <<pvc, vol, pv, svc, ings>>
       \/ svc.exists /\ svc' = NoService /\ UNCHANGED <<pvc, vol, pv, dpl, ings>>
       \/ \E e \in ings : ings' = ings \ {e} /\ UNCHANGED <<pvc, vol, pv, dpl, svc>>
    /\ UNCHANGED store

\* the volume binder binds or releases the claim and the persistent volume
SetClaimPhase ==
    /\ Changed
    /\ \E b \in BOOLEAN : ClaimPhase(b)

SetPersistentVolumePhase ==
    /\ Changed
    /\ \E b \in BOOLEAN : PersistentVolumePhase(b)

\* the volume controller assigns the volume to a manager, or reports its
\* robustness
SetVolumeOwner ==
    /\ Changed
    /\ \E o \in ControllerIDs : VolumeOwner(o)

SetVolumeRobustness ==
    /\ Changed
    /\ vol.exists
    /\ vol' = [vol EXCEPT !.faulted = ~vol.faulted]
    /\ UNCHANGED <<store, pvc, pv, dpl, svc, ings>>

\* the deployment controller reports the pods of the deployment
ObserveDeployment ==
    /\ Changed
    /\ \E o \in DeploymentObservations : DeploymentStatus(o)

\* somebody else edits the replica count of the deployment
EditReplicas ==
    /\ Changed
    /\ dpl.exists
    /\ \E r \in ReplicaValues \ {dpl.replicas} : dpl' = [dpl EXCEPT !.replicas = r]
    /\ UNCHANGED <<store, pvc, vol, pv, svc, ings>>

Next ==
    \/ Pass
    \/ CreateObjectStore
    \/ SetTargetState
    \/ UpdateSpecImage
    \/ DeleteObjectStore
    \/ RemoveObjectStore
    \/ DeleteDependent
    \/ SetClaimPhase
    \/ SetPersistentVolumePhase
    \/ SetVolumeOwner
    \/ SetVolumeRobustness
    \/ ObserveDeployment
    \/ EditReplicas

Spec == Init /\ [][Next]_vars

----------------------------------------------------------------------------
(* SpecConverge: a new ObjectStore whose target state is not Stopped and   *)
(* none of whose dependents exists. Every pass observes the existing       *)
(* dependents healthy: between the passes the cluster binds the claim and  *)
(* the persistent volume, assigns the volume and reports the pod ready.    *)

Healed ==
    /\ last' = NoPass
    /\ UNCHANGED <<env, run, passes, trip, queue, proc>>

ConvergePass ==
    /\ passes < MaxPasses
    /\ \E id \in ControllerIDs : ExistingHealthyFor(id) /\ Reconcile(id, {})
    /\ passes' = passes + 1
    /\ UNCHANGED <<env, run, trip, queue, proc>>

BindClaim == ClaimPhase(TRUE) /\ Healed

BindPersistentVolume == PersistentVolumePhase(TRUE) /\ Healed

AssignVolume ==
    /\ vol.owner = NoOwner
    /\ \E o \in ControllerIDs : VolumeOwner(o)
    /\ Healed

DeploymentBecomesReady ==
    /\ DeploymentStatus([statusReplicas |-> 1, available |-> 1, unavailable |-> 0])
    /\ Healed

InitConverge == InitNew(TargetStates \ {"Stopped"}) /\ InitBookkeeping

NextConverge ==
    \/ ConvergePass
    \/ BindClaim
    \/ BindPersistentVolume
    \/ AssignVolume
    \/ DeploymentBecomesReady

SpecConverge == InitConverge /\ [][NextConverge]_vars

----------------------------------------------------------------------------
(* SpecRoundTrip: a Running ObjectStore with all its dependents; the user  *)
(* changes the target state and the deployment controller reports the      *)
(* pods. trip records the status states from the moment the target is set  *)
(* to Stopped while Running, as long as the target changes follow the      *)
(* round trip (back to Running once Stopped) and no store call fails.      *)

TripPass ==
    /\ \E id \in ControllerIDs :
         \E fails \in CandidateFails(id) : Reconcile(id, fails)
    /\ trip' = IF trip = << >> \/ Len(trip) = Len(TripStates) THEN trip
               ELSE IF last'.fails # {} THEN << >>
               ELSE IF store'.state # store.state THEN Append(trip, store'.state)
               ELSE trip
    /\ UNCHANGED <<env, run, passes, queue, proc>>

TripTarget ==
    /\ \E t \in TargetStates :
         /\ TargetState(t)
         /\ trip' = IF t = "Stopped" /\ store.state = "Running" THEN <<"Running">>
                    ELSE IF t = "Running" /\ store.state = "Stopped" THEN trip
                    ELSE << >>
    /\ last' = NoPass
    /\ UNCHANGED <<env, run, passes, queue, proc>>

TripObserve ==
    /\ \E o \in DeploymentObservations : DeploymentStatus(o)
    /\ last' = NoPass
    /\ UNCHANGED <<env, run, passes, trip, queue, proc>>

InitRoundTrip == InitSettled(TargetStates \ {"Stopped"}, {"Running"}) /\ InitBookkeeping

NextRoundTrip ==
    \/ TripPass
    \/ TripTarget
    \/ TripObserve

SpecRoundTrip == InitRoundTrip /\ [][NextRoundTrip]_vars

----------------------------------------------------------------------------
(* SpecCache: passes whose cache lags behind the cluster. The lookups of   *)
(* a pass read the cache, its creates go to the store: a resource that     *)
(* exists and that the cache has not seen yet is looked up as not-found    *)
(* and its create answers AlreadyExists.                                   *)

\* the lookups of dependents that exist; a lagging cache misses one of them
ExistingLookups ==
    (IF pvc.exists THEN {"GetPersistentVolumeClaim"} ELSE {})
    \cup (IF vol.exists THEN {"GetVolume"} ELSE {})
    \cup (IF pv.exists THEN {"GetPersistentVolume"} ELSE {})
    \cup (IF dpl.exists THEN {"GetDeployment"} ELSE {})
    \cup (IF svc.exists THEN {"GetService"} ELSE {})
    \cup (IF ings # {} THEN {"GetIngress"} ELSE {})

CachePass ==
    /\ passes < MaxPasses
    /\ \E id \in ControllerIDs :
         \E stale \in {{}} \cup {{l} : l \in ExistingLookups} :
             ReconcileFrom(StaleContext(id, stale))
    /\ passes' = passes + 1
    /\ UNCHANGED <<env, run, trip, queue, proc>>

InitCache ==
    /\ \/ InitNew(TargetStates \ {"Stopped"})
       \/ InitSettled(TargetStates \ {"Stopped"}, {"Running"})
    /\ InitBookkeeping

NextCache == CachePass

SpecCache == InitCache /\ [][NextCache]_vars

----------------------------------------------------------------------------
(* SpecQueue: the controller process. Run waits for the caches, starts the *)
(* workers and waits for the stop channel; each worker loops over          *)
(* processNextWorkItem; the informers' event handlers add keys. A pass of  *)
(* a worker is reconcile on the cluster as above, made by ControllerID;    *)
(* the store call that may fail in it is the first one, so a failing pass  *)
(* leaves the cluster as it found it.                                      *)

\* the pass reconcile(key) makes: for a key that names no ObjectStore the
\* lookup answers not-found
ContextForKey(k, fails) ==
    IF k = StoreKey THEN NewContext(ControllerID, fails)
    ELSE [NewContext(ControllerID, fails) EXCEPT !.store = NoStore]

QueueFails == {{}, {"GetObjectStore"}, {"UpdateObjectStoreStatus"}}

Applied(k, c) ==
    IF k = StoreKey
    THEN /\ store' = c.store
         /\ pvc' = c.pvc
         /\ vol' = c.vol
         /\ pv' = c.pv
         /\ dpl' = c.dpl
         /\ svc' = c.svc
         /\ ings' = c.ings
    ELSE UNCHANGED <<store, pvc, vol, pv, dpl, svc, ings>>

ClusterUnchanged == UNCHANGED <<store, pvc, vol, pv, dpl, svc, ings>>
QueueBookkeeping == UNCHANGED <<env, run, passes, trip>>

InFlight(w) == proc.worker[w] \in {"reconcile", "requeue"}
Alive == proc.Run # "crashed"

\* the informers: every cache has synced. They run on the same stop channel
\* and do not sync any more once it is closed.
CachesSynced ==
    /\ ~proc.cacheSyncs /\ ~proc.stopCh
    /\ proc' = [proc EXCEPT !.cacheSyncs = TRUE]
    /\ last' = NoPass
    /\ UNCHANGED queue /\ ClusterUnchanged /\ QueueBookkeeping

\* the caller of Run closes the stop channel
CloseStopCh ==
    /\ ~proc.stopCh
    /\ proc' = [proc EXCEPT !.stopCh = TRUE,
                   !.heldAtStop = {proc.key[w] : w \in {v \in Workers : InFlight(v)}}]
    /\ last' = NoPass
    /\ UNCHANGED queue /\ ClusterUnchanged /\ QueueBookkeeping

\* Run: WaitForNamedCacheSync answers true, the workers are started
RunWithoutSync ==
    /\ proc.Run = "waitSync"
    /\ proc' = [proc EXCEPT !.Run = "waitStop",
                   !.worker = [w \in Workers |-> "until"]]
    /\ last' = NoPass
    /\ UNCHANGED queue /\ ClusterUnchanged /\ QueueBookkeeping

RunCacheSynced ==
    /\ proc.Run = "waitSync" /\ proc.cacheSyncs
    /\ proc' = [proc EXCEPT !.Run = "waitStop",
                   !.worker = [w \in Workers |-> "until"]]
    /\ last' = NoPass
    /\ UNCHANGED queue /\ ClusterUnchanged /\ QueueBookkeeping

\* Run: WaitForNamedCacheSync answers false because the stop channel is
\* closed; Run returns and its deferred ShutDown runs
RunCacheSyncFailed ==
    /\ proc.Run = "waitSync" /\ proc.stopCh
    /\ proc' = [proc EXCEPT !.Run = "returned"]
    /\ queue' = ShutDown(queue)
    /\ last' = NoPass
    /\ ClusterUnchanged /\ QueueBookkeeping

\* Run: the stop channel is closed; Run returns and its deferred ShutDown runs
RunStoppedNoShutDown ==
    /\ proc.Run = "waitStop" /\ proc.stopCh
    /\ proc' = [proc EXCEPT !.Run = "returned"]
    /\ last' = NoPass
    /\ UNCHANGED queue /\ ClusterUnchanged /\ QueueBookkeeping

RunStopped ==
    /\ proc.Run = "waitStop" /\ proc.stopCh
    /\ proc' = [proc EXCEPT !.Run = "returned"]
    /\ queue' = ShutDown(queue)
    /\ last' = NoPass
    /\ ClusterUnchanged /\ QueueBookkeeping

\* wait.Until(osc.worker, time.Second, stopCh): before each call of worker
\* the stop channel is checked
Until(w) ==
    /\ Alive /\ proc.worker[w] = "until"
    /\ proc' = [proc EXCEPT !.worker[w] = IF proc.stopCh THEN "exited" ELSE "get"]
    /\ last' = NoPass
    /\ UNCHANGED queue /\ ClusterUnchanged /\ QueueBookkeeping

\* processNextWorkItem, up to the call of reconcile: Get; on quit worker
\* returns to wait.Until
processGetDoneEarly(w) ==
    /\ Alive /\ proc.worker[w] = "get"
    /\ \/ /\ CanGet(queue)
          /\ queue' = Done(Get(queue), Head(queue.items))
          /\ proc' = [proc EXCEPT !.worker[w] = "reconcile",
                         !.key[w] = Head(queue.items)]
       \/ /\ GetQuits(queue)
          /\ UNCHANGED queue
          /\ proc' = [proc EXCEPT !.worker[w] = "until"]
    /\ last' = NoPass
    /\ ClusterUnchanged /\ QueueBookkeeping

processNextWorkItemGet(w) ==
    /\ Alive /\ proc.worker[w] = "get"
    /\ \/ /\ CanGet(queue)
          /\ queue' = Get(queue)
          /\ proc' = [proc EXCEPT !.worker[w] = "reconcile",
                         !.key[w] = Head(queue.items)]
       \/ /\ GetQuits(queue)
          /\ UNCHANGED queue
          /\ proc' = [proc EXCEPT !.worker[w] = "until"]
    /\ last' = NoPass
    /\ ClusterUnchanged /\ QueueBookkeeping

\* processNextWorkItem: err := osc.reconcile(key); a panic of the pass ends
\* the process
processNextWorkItemReconcile(w) ==
    /\ Alive /\ proc.worker[w] = "reconcile"
    /\ \E fails \in QueueFails :
         LET k == proc.key[w]
             c == reconcile(ContextForKey(k, fails))
         IN  /\ fails \subseteq c.asked
             /\ c.ret = "err" => queue.failures[k] < MaxRequeues
             /\ Applied(k, c)
             /\ proc' = IF c.ret = "panic"
                        THEN [proc EXCEPT !.Run = "crashed",
                                 !.worker = [v \in Workers |-> "exited"]]
                        ELSE [proc EXCEPT !.worker[w] = "requeue",
                                 !.err[w] = (c.ret = "err"),
                                 !.lost[w] = ("UpdateObjectStoreStatus" \in fails)]
    /\ last' = NoPass
    /\ UNCHANGED queue /\ QueueBookkeeping

\* processNextWorkItem after reconcile: Forget on success, AddRateLimited on
\* error, then the deferred Done
processDoneNoRetry(w) ==
    /\ Alive /\ proc.worker[w] = "requeue"
    /\ queue' = Done(Forget(queue, proc.key[w]), proc.key[w])
    /\ proc' = [proc EXCEPT !.worker[w] = "get", !.key[w] = NoKey, !.err[w] = FALSE,
                   !.lost[w] = FALSE]
    /\ last' = NoPass
    /\ ClusterUnchanged /\ QueueBookkeeping

processNextWorkItemDone(w) ==
    /\ Alive /\ proc.worker[w] = "requeue"
    /\ queue' = IF proc.err[w]
                THEN Done(AddRateLimited(queue, proc.key[w]), proc.key[w])
                ELSE Done(Forget(queue, proc.key[w]), proc.key[w])
    /\ proc' = [proc EXCEPT !.worker[w] = "get", !.key[w] = NoKey, !.err[w] = FALSE,
                   !.lost[w] = FALSE]
    /\ last' = NoPass
    /\ ClusterUnchanged /\ QueueBookkeeping

\* the delay of a rate-limited add has elapsed: the queue adds the key
AddAfterElapsed(k) ==
    /\ k \in queue.waiting
    /\ queue' = Add([queue EXCEPT !.waiting = @ \ {k}], k)
    /\ last' = NoPass
    /\ UNCHANGED proc /\ ClusterUnchanged /\ QueueBookkeeping

\* the ObjectStore informer reports an add, update, delete or resync of the
\* ObjectStore named by k
enqueueUnchecked(k) ==
    /\ queue' = [queue EXCEPT !.items = Append(@, k)]
    /\ UNCHANGED proc /\ ClusterUnchanged /\ QueueBookkeeping

enqueueObjectStore(k) ==
    /\ queue' = Add(queue, k)
    /\ UNCHANGED proc /\ ClusterUnchanged /\ QueueBookkeeping

\* SpecQueue records the event in last: the key and whether it was pending
\* or in flight when the event arrived
Enqueued(k) ==
    [kind |-> "enqueue", key |-> k, pending |-> k \in Queued(queue),
     inflight |-> k \in queue.processing]

InitQueue ==
    /\ store = NewStore("Running", << >>, TRUE)
    /\ InitNothing
    /\ InitBookkeeping

NextQueue ==
    \/ CachesSynced
    \/ CloseStopCh
    \/ RunCacheSynced
    \/ RunCacheSyncFailed
    \/ RunStopped
    \/ \E w \in Workers : Until(w)
    \/ \E w \in Workers : processNextWorkItemGet(w)
    \/ \E w \in Workers : processNextWorkItemReconcile(w)
    \/ \E w \in Workers : processNextWorkItemDone(w)
    \/ \E k \in Keys : AddAfterElapsed(k)
    \/ \E k \in Keys : enqueueObjectStore(k) /\ last' = Enqueued(k)

SpecQueue == InitQueue /\ [][NextQueue]_vars

\* SpecQueueFair: the same process without the record of events, and with
\* fairness: the goroutines of the process are scheduled, a pass returns
\* and the queue's timers fire; nothing is assumed of the informers and of
\* the stop channel
NextQueueFair ==
    \/ CachesSynced
    \/ CloseStopCh
    \/ RunCacheSynced
    \/ RunCacheSyncFailed
    \/ RunStopped
    \/ \E w \in Workers : Until(w)
    \/ \E w \in Workers : processNextWorkItemGet(w)
    \/ \E w \in Workers : processNextWorkItemReconcile(w)
    \/ \E w \in Workers : processNextWorkItemDone(w)
    \/ \E k \in Keys : AddAfterElapsed(k)
    \/ \E k \in Keys : enqueueObjectStore(k) /\ last' = NoPass

FairQueue ==
    /\ WF_vars(RunCacheSynced)
    /\ WF_vars(RunCacheSyncFailed)
    /\ WF_vars(RunStopped)
    /\ \A w \in Workers :
         /\ WF_vars(Until(w))
         /\ WF_vars(processNextWorkItemGet(w))
         /\ []<>(proc.worker[w] # "reconcile")
         /\ WF_vars(processNextWorkItemDone(w))
    /\ \A k \in Keys : WF_vars(AddAfterElapsed(k))

SpecQueueFair == InitQueue /\ [][NextQueueFair]_vars /\ FairQueue

----------------------------------------------------------------------------
(* Properties. They speak about the pass just made: last holds the cluster *)
(* the pass found (pre), the variables hold the cluster it left.           *)

IsPass == last.kind = "pass"
\* a pass in which no store call failed
CleanPass == IsPass /\ last.fails = {}
\* a pass that found the ObjectStore and was responsible for it
ActedPass == IsPass /\ last.exit \notin {"getObjectStore", "deleted", "notResponsible"}
\* a clean pass on an ObjectStore without deletion timestamp
NormalPass == CleanPass /\ ActedPass /\ ~last.pre.store.deleting

Issued(call) == call \in Range(last.calls)
NothingWritten == last.calls = << >> /\ Cluster = last.pre

PreDependents ==
    {k \in {"pvc", "vol", "pv", "dpl", "svc"} : last.pre[k].exists}

C2_RunningWithinFivePasses == passes >= 5 => store.state = "Running"

C2_Witness ==
    /\ passes >= 1 /\ passes <= 5
    /\ IsPass /\ last.pre.store.state = "Starting" /\ store.state = "Running"
    /\ AllDependentsExist

(* C3: a pass of a controller on an ObjectStore whose volume exists and is *)
(* owned by the other controller writes nothing, and returns success when  *)
(* it could read the ObjectStore.                                          *)
ForeignPass ==
    /\ IsPass
    /\ last.pre.store.exists
    /\ last.pre.vol.exists
    /\ last.pre.vol.owner \in ControllerIDs \ {last.id}

C3_OnlyOwnerWrites ==
    ForeignPass =>
        /\ NothingWritten
        /\ "GetObjectStore" \notin last.fails => last.ret = "ok"

C3_Witness ==
    /\ ForeignPass /\ last.ret = "ok" /\ last.exit = "notResponsible"
    /\ last.pre.store.state = "Running" /\ last.pre.store.target = "Stopped"

(* C4: a pass on a Terminating ObjectStore that still has its finalizer    *)
(* removes the finalizer and does nothing else, whether or not dependents  *)
(* exist; the end of the termination handler is reached only by a pass     *)
(* that finds the finalizer gone and none of service, deployment, claim,   *)
(* persistent volume and volume; with a dependent left the pass waits.     *)
TerminatingPass ==
    /\ CleanPass /\ ActedPass
    /\ last.pre.store.deleting /\ last.pre.store.state = "Terminating"

C4_TerminationOrdering ==
    /\ (TerminatingPass /\ last.pre.store.finalizer) =>
           /\ last.exit = "removeFinalizer"
           /\ last.calls = <<"RemoveFinalizerForObjectStore">>
           /\ ~store.finalizer
    /\ (TerminatingPass /\ ~last.pre.store.finalizer) =>
           /\ NothingWritten
           /\ last.exit = IF PreDependents = {} THEN "terminated" ELSE "waitCascade"
    /\ (IsPass /\ last.exit = "terminated") =>
           /\ ~last.pre.store.finalizer
           /\ PreDependents = {}

C4_Witness ==
    /\ TerminatingPass /\ last.exit = "terminated" /\ last.ret = "ok"
    /\ last.second

(* C5: from Running with all dependents, target Stopped, the deployment    *)
(* observed with no replica, target Running and the deployment observed   *)
(* ready drive the state through Running, Stopping, Stopped, Starting,    *)
(* Running in this order, and no pass issues a create.                    *)
IsPrefix(s, t) == Len(s) <= Len(t) /\ \A i \in 1..Len(s) : s[i] = t[i]

C5_RoundTrip ==
    /\ IsPrefix(trip, TripStates)
    /\ IsPass => Range(last.calls) \cap Creates = {}

C5_Witness ==
    /\ trip = TripStates
    /\ store.state = "Running" /\ store.target = "Running"
    /\ AllDependentsExist

(* C6: a pass for a key whose ObjectStore does not exist returns success   *)
(* and writes nothing.                                                     *)
C6_NonexistentKey ==
    (IsPass /\ ~last.pre.store.exists /\ "GetObjectStore" \notin last.fails) =>
        /\ last.ret = "ok"
        /\ NothingWritten

C6_Witness ==
    /\ IsPass /\ ~last.pre.store.exists /\ last.exit = "deleted"
    /\ PreDependents # {}

(* C7: after one pass on a new ObjectStore (empty status, target not       *)
(* Stopped, no dependents) a claim exists and the state is Starting (the   *)
(* claim as stated).                                                       *)
FirstPass ==
    /\ NormalPass
    /\ last.pre.store.state = Unset /\ last.pre.store.target # "Stopped"
    /\ PreDependents = {} /\ last.pre.ings = {}

C7_ClaimAfterOnePass ==
    FirstPass => pvc.exists /\ store.state = "Starting"

(* C7, amended: the first pass only sets the state to Starting and creates *)
(* nothing; the pass after it, the first one in state Starting, creates    *)
(* the claim and leaves the state Starting.                                *)
C7_StartingThenClaim ==
    /\ FirstPass =>
           /\ store.state = "Starting"
           /\ last.calls = <<"UpdateObjectStoreStatus">>
           /\ ~pvc.exists
    /\ (NormalPass /\ last.pre.store.state = "Starting" /\ ~last.pre.pvc.exists) =>
           /\ pvc.exists
           /\ Head(last.calls) = "CreatePersistentVolumeClaim"
           /\ store.state = "Starting"

C7_Witness ==
    /\ NormalPass /\ last.second
    /\ last.pre.store.state = "Starting" /\ PreDependents = {}
    /\ pvc.exists /\ store.state = "Starting"

(* C8: a pass on a Running ObjectStore (target not Stopped, no deletion    *)
(* timestamp) whose deployment is ready with one available replica on the  *)
(* images of the spec, whose service exists, whose claim and persistent    *)
(* volume are bound and whose volume is not faulted returns success and    *)
(* writes nothing: the status is unchanged.                                *)
HealthyRunningPass ==
    /\ NormalPass
    /\ last.pre.store.state = "Running" /\ last.pre.store.target # "Stopped"
    /\ last.pre.dpl.exists /\ DeploymentReady(last.pre.dpl, last.pre.store)
    /\ last.pre.dpl.available = 1
    /\ last.pre.svc.exists
    /\ last.pre.pvc.exists /\ last.pre.pvc.bound
    /\ last.pre.vol.exists /\ ~last.pre.vol.faulted
    /\ last.pre.pv.exists /\ last.pre.pv.bound

C8_RunningHealthyUnchanged ==
    HealthyRunningPass =>
        /\ last.ret = "ok"
        /\ NothingWritten
        /\ ~Issued("UpdateObjectStoreStatus")

C8_Witness == HealthyRunningPass /\ last.exit = "healthy" /\ store.state = "Running"

(* C9: a pass on a Stopping ObjectStore whose deployment has a replica     *)
(* count greater than 0 updates the replica count to 0, returns success    *)
(* and leaves the state Stopping.                                          *)
StoppingPass ==
    /\ NormalPass
    /\ last.pre.store.state = "Stopping"
    /\ last.pre.dpl.exists

C9_StoppingScalesDown ==
    (StoppingPass /\ last.pre.dpl.replicas \in {Ptr(1), Ptr(2)}) =>
        /\ dpl.replicas = Ptr(0)
        /\ last.calls = <<"UpdateDeployment">>
        /\ last.ret = "ok"
        /\ store.state = "Stopping"

C9_Witness ==
    /\ StoppingPass /\ last.pre.dpl.replicas = Ptr(1) /\ dpl.replicas = Ptr(0)
    /\ last.exit = "scaleDown"

(* C10: a pass changes the state from Stopping to Stopped if and only if   *)
(* the deployment it observed has a replica count of zero and no available *)
(* replica; never for a replica count that is unset or not zero.           *)
C10_StoppedIffScaledDown ==
    StoppingPass =>
        (store.state = "Stopped" <=>
            last.pre.dpl.replicas = Ptr(0) /\ last.pre.dpl.available = 0)

(* C16: no pass deletes a dependent resource or the ObjectStore: whatever  *)
(* the pass found is still there after it; the only removal a pass makes   *)
(* is the finalizer, by RemoveFinalizerForObjectStore.                     *)
C16_NoDependentDeleted ==
    IsPass =>
        /\ last.pre.store.exists => store.exists
        /\ last.pre.pvc.exists => pvc.exists
        /\ last.pre.vol.exists => vol.exists
        /\ last.pre.pv.exists => pv.exists
        /\ last.pre.dpl.exists => dpl.exists
        /\ last.pre.svc.exists => svc.exists
        /\ last.pre.ings \subseteq ings
        /\ (last.pre.store.finalizer /\ ~store.finalizer) =>
               last.calls = <<"RemoveFinalizerForObjectStore">>

C16_Witness ==
    /\ TerminatingPass /\ last.pre.store.finalizer /\ ~store.finalizer
    /\ PreDependents = {"pvc", "vol", "pv", "dpl", "svc"}
    /\ AllDependentsExist

(* C17: a pass in which a store call fails (with an error other than the   *)
(* expected not-found) returns an error.                                   *)
C17_StoreFailureReturnsError ==
    (IsPass /\ last.fails # {}) => last.ret = "err"

(* C19: a pass on a Running ObjectStore whose dependents are all found and *)
(* of which one fails its health check sets the state to Error and returns *)
(* success (the claim as stated).                                          *)
UnhealthyRunningPass ==
    /\ NormalPass
    /\ last.pre.store.state = "Running" /\ last.pre.store.target # "Stopped"
    /\ PreDependents = {"pvc", "vol", "pv", "dpl", "svc"}
    /\ last.pre.dpl.replicas = Ptr(1)
    /\ \/ last.pre.dpl.statusReplicas = 0
       \/ last.pre.dpl.unavailable > 0
       \/ ~last.pre.pvc.bound
       \/ last.pre.vol.faulted
       \/ ~last.pre.pv.bound

C20_StoppingWithoutDependents ==
    (NormalPass /\ last.pre.store.state = "Stopping" /\ PreDependents = {}) =>
        last.ret = "ok"

(* C18: a pass in which the create of a dependent answers AlreadyExists   *)
(* (and no store call fails) does not return an error and goes on as if   *)
(* it had created the resource.                                           *)
C18_AlreadyExistsIsSuccess ==
    (IsPass /\ last.fails = {} /\ last.conflicts # {}) =>
        /\ last.ret = "ok"
        /\ last.exit \in {"waitPVC", "waitVolume", "waitPV", "waitDeployment", "running"}

----------------------------------------------------------------------------
(* Properties of the controller process (SpecQueue, SpecQueueFair) *)

\* the keys some worker holds: got from the queue and not yet done
Held(w) == IF InFlight(w) THEN {proc.key[w]} ELSE {}
WorkersStarted == \E w \in Workers : proc.worker[w] # "idle"

(* C11: at most one reconcile pass is in progress at any time for a given  *)
(* key: two workers never hold the same key, and a key a worker holds is   *)
(* not pending in the queue, whatever events arrive meanwhile.             *)
C11_OnePassPerKey ==
    /\ \A w1, w2 \in Workers :
         (w1 # w2 /\ InFlight(w1) /\ InFlight(w2)) => proc.key[w1] # proc.key[w2]
    /\ \A w \in Workers : Held(w) \cap Queued(queue) = {}

\* both workers are in a pass and an event has just arrived for a key in
\* progress
C11_Witness ==
    /\ \A w \in Workers : proc.worker[w] = "reconcile"
    /\ last.kind = "enqueue" /\ last.inflight
    /\ last.key \in queue.dirty

(* C13: the queue never holds the same key more than once: an event for a  *)
(* key that is already pending adds no second entry.                       *)
C13_NoDuplicateKey ==
    \A i, j \in 1..Len(queue.items) : i # j => queue.items[i] # queue.items[j]

\* an event has just arrived for a key that was pending, and the key is
\* pending once
C13_Witness ==
    /\ last.kind = "enqueue" /\ last.pending
    /\ Cardinality({i \in 1..Len(queue.items) : queue.items[i] = last.key}) = 1

(* C15: no worker is started and no pass runs before every informer cache  *)
(* has synced; when the stop channel is closed before the caches have      *)
(* synced Run returns without having started a worker; otherwise Run does  *)
(* not return before the stop channel is closed.                           *)
C15_RunWaitsForCaches ==
    /\ [](WorkersStarted => proc.cacheSyncs)
    /\ []((\E w \in Workers : InFlight(w)) => proc.cacheSyncs)
    /\ [](proc.Run = "returned" => proc.stopCh)
    /\ []((proc.stopCh /\ ~proc.cacheSyncs) => ~WorkersStarted)
    /\ ((proc.stopCh /\ ~proc.cacheSyncs) ~> (proc.Run = "returned" /\ ~WorkersStarted))

\* events are pending, the stop channel was closed before the caches had
\* synced, and Run has returned without a worker
C15_Witness ==
    /\ proc.Run = "returned" /\ ~proc.cacheSyncs
    /\ queue.items # << >>
    /\ \A w \in Workers : proc.worker[w] = "idle"

\* worker w ends processNextWorkItem in this step
Finishes(w) == proc.worker[w] = "requeue" /\ proc'.worker[w] # "requeue"
Reconciling(k) == \E w \in Workers : proc.worker[w] = "reconcile" /\ proc.key[w] = k
ReturnedError(k) ==
    \E w \in Workers : proc.worker[w] = "requeue" /\ proc.key[w] = k /\ proc.err[w]

(* C12: when a pass returns an error the worker re-adds the key with rate  *)
(* limiting (the rate limiter counts it and the key waits for its delay),  *)
(* and the key is reconciled again unless the queue is shut down; when a   *)
(* pass returns success the worker clears the key's rate-limit history and *)
(* does not add the key: it is pending afterwards only if an event marked  *)
(* it while the pass ran.                                                  *)
C12_RetryAndForget ==
    /\ [][\A w \in Workers : Finishes(w) =>
            LET k == proc.key[w]
            IN  IF proc.err[w]
                THEN /\ queue'.failures[k] = queue.failures[k] + 1
                     /\ queue.shuttingDown \/ k \in queue'.waiting
                ELSE /\ queue'.failures[k] = 0
                     /\ queue'.waiting = queue.waiting
                     /\ k \in Queued(queue') => k \in queue.dirty]_vars
    /\ \A k \in Keys : ReturnedError(k) ~> (Reconciling(k) \/ queue.shuttingDown)

\* a key has failed MaxRequeues times in a row and waits for its delay
C12_Witness ==
    \E k \in Keys :
        /\ queue.failures[k] = MaxRequeues
        /\ k \in queue.waiting
        /\ ~queue.shuttingDown

AllWorkersGone == \A w \in Workers : proc.worker[w] \in {"idle", "exited"}
\* worker w starts a pass in this step
StartsPass(w) == proc.worker[w] = "get" /\ proc'.worker[w] = "reconcile"

(* C14, as claimed: once the stop channel is closed no new pass is started *)
(* for a key whose pass was in flight when it was closed.                  *)
C14_NoNewPassAfterStop ==
    [][\A w \in Workers :
         (proc.stopCh /\ StartsPass(w)) => proc'.key[w] \notin proc.heldAtStop]_vars

(* C14, amended: after the stop channel is closed Run shuts the queue      *)
(* down; from the shutdown on no key is added to the queue any more        *)
(* (events and the rate-limited re-add of a failed pass are dropped), only *)
(* keys pending or marked for another pass at the shutdown are still       *)
(* handed out; a pass in flight is not abandoned; and eventually every     *)
(* worker that was started has exited.                                     *)
C14_ShutdownDrains ==
    /\ [](queue.shuttingDown => proc.stopCh)
    /\ [][queue.shuttingDown =>
            /\ queue'.shuttingDown
            /\ queue'.dirty \subseteq queue.dirty
            /\ queue'.waiting \subseteq queue.waiting
            /\ Queued(queue') \subseteq Queued(queue) \cup queue.dirty]_vars
    /\ [][\A w \in Workers :
            proc.worker[w] = "reconcile" =>
                proc'.worker[w] \in {"reconcile", "requeue"} \/ ~Alive']_vars
    /\ (proc.stopCh ~> queue.shuttingDown)
    /\ (proc.stopCh ~> AllWorkersGone)

\* a pass was in flight when the stop channel was closed; the queue is shut
\* down and every worker has exited
C14_Witness ==
    /\ proc.heldAtStop # {}
    /\ queue.shuttingDown
    /\ \A w \in Workers : proc.worker[w] = "exited"

----------------------------------------------------------------------------
(* Properties of the handlers (Spec), continued *)

\* a pass of the Starting/Error handler in which no store call failed
StartingPass ==
    /\ NormalPass
    /\ last.pre.store.state \in {"Starting", "Error"}

\* the deployment is not ready: replica count other than 1, no replica, or
\* an unavailable replica
NotReady(d) == d.replicas # Ptr(1) \/ d.statusReplicas = 0 \/ d.unavailable > 0

\* after the get-or-create steps of the pass some dependent is not healthy
\* (a dependent the pass creates is not bound, respectively not ready)
SomeUnhealthy ==
    \/ ~last.pre.pvc.exists \/ ~last.pre.pvc.bound
    \/ last.pre.vol.exists /\ last.pre.vol.faulted
    \/ ~last.pre.pv.exists \/ ~last.pre.pv.bound
    \/ ~last.pre.dpl.exists \/ NotReady(last.pre.dpl)

(* C21: a pass in state Starting or Error without store error in which a   *)
(* dependent is not yet healthy (claim not bound, volume faulted,         *)
(* persistent volume not bound, deployment not ready) returns success and  *)
(* changes the state neither to Running nor to Error.                      *)
C21_UnhealthyIsSilentWait ==
    (StartingPass /\ SomeUnhealthy) =>
        /\ last.ret = "ok"
        /\ store.state # "Running"
        /\ store.state = "Error" => last.pre.store.state = "Error"

\* a clean pass on an ObjectStore whose state is none of the named states
UninitializedPass ==
    /\ NormalPass
    /\ last.pre.store.state \notin
           {"Starting", "Running", "Stopping", "Stopped", "Error", "Terminating"}

(* C22: a pass on an ObjectStore without deletion timestamp whose state is  *)
(* uninitialized (empty or Unknown) returns success; with a target state   *)
(* other than Stopped it sets the state to Starting and writes only the    *)
(* status; with target state Stopped it writes nothing.                    *)
C22_Initialize ==
    UninitializedPass =>
        /\ last.ret = "ok"
        /\ IF last.pre.store.target # "Stopped"
           THEN /\ store.state = "Starting"
                /\ store.statusEndpoints = last.pre.store.statusEndpoints
                /\ last.calls = <<"UpdateObjectStoreStatus">>
           ELSE /\ NothingWritten
                /\ store.state = last.pre.store.state

\* a pass on an ObjectStore in state Unknown with target state Stopped
C22_Witness ==
    /\ UninitializedPass
    /\ last.pre.store.state = "Unknown" /\ last.pre.store.target = "Stopped"
    /\ store.state = "Unknown"

\* the named states; every other value of status.state is uninitialized
NamedStates == {"Starting", "Running", "Stopping", "Stopped", "Error", "Terminating"}
Uninitialized(s) == s \notin NamedStates

\* the transitions of the state table
TableTransition(from, to) ==
    \/ Uninitialized(from) /\ to = "Starting"
    \/ from \in {"Starting", "Error"} /\ to = "Running"
    \/ from = "Error" /\ to = "Starting"
    \/ from = "Running" /\ to \in {"Stopping", "Error"}
    \/ from = "Stopping" /\ to = "Stopped"
    \/ from = "Stopped" /\ to = "Starting"

StateChanged == IsPass /\ store.state # last.pre.store.state

BecameRunning ==
    /\ IsPass
    /\ last.pre.store.state \in {"Starting", "Error"}
    /\ store.state = "Running"

(* C24: a pass changes the state from Starting or Error to Running only if *)
(* in that pass claim, volume, persistent volume, deployment, service and  *)
(* every declared ingress exist and the health checks pass: claim bound,   *)
(* volume not faulted, persistent volume bound, deployment with replica    *)
(* count 1, at least one replica and no unavailable replica. Claim,        *)
(* persistent volume and deployment were there before the pass; volume,    *)
(* service and ingresses may be created by it.                             *)
C24_RunningOnlyIfHealthy ==
    BecameRunning =>
        /\ AllDependentsExist
        /\ last.pre.pvc.exists /\ last.pre.pvc.bound /\ pvc.bound
        /\ vol.exists /\ ~vol.faulted
        /\ last.pre.pv.exists /\ last.pre.pv.bound /\ pv.bound
        /\ last.pre.dpl.exists /\ ~NotReady(last.pre.dpl) /\ ~NotReady(dpl)
        /\ last.ret = "ok"

\* a pass found a declared ingress missing, created it, and changed the
\* state from Error to Running
C24_Witness ==
    /\ BecameRunning
    /\ last.pre.store.state = "Error"
    /\ Issued("CreateIngress")

\* the status updates a pass issued
StatusUpdates == {i \in 1..Len(last.calls) : last.calls[i] = "UpdateObjectStoreStatus"}

(* C25: a pass issues a status update if and only if the status it holds   *)
(* at its end (last.final) differs from the snapshot taken at its start,   *)
(* on every exit path, the ones that return an error or panic included;    *)
(* it issues at most one; the stored status afterwards is the one of the   *)
(* pass if the update succeeded and the snapshot otherwise.                *)
C25_StatusWrittenIffChanged ==
    IsPass =>
        /\ StatusUpdates # {} <=> last.final # Status(last.pre.store)
        /\ Cardinality(StatusUpdates) <= 1
        /\ Status(store) = IF "UpdateObjectStoreStatus" \in last.fails
                           THEN Status(last.pre.store)
                           ELSE last.final

\* a pass that returns an error has changed the status and written it
C25_Witness ==
    /\ IsPass /\ last.ret = "err"
    /\ StatusUpdates # {}
    /\ Status(store) # Status(last.pre.store)

\* a pass of the Running handler (target state not Stopped) that returned
\* an error
RunningFailedPass ==
    /\ IsPass /\ ActedPass /\ ~last.pre.store.deleting
    /\ last.pre.store.state = "Running" /\ last.pre.store.target # "Stopped"
    /\ last.ret = "err"

(* C26: whenever a pass that started in state Running with target state    *)
(* not Stopped returns an error of the Running handler (a failed lookup    *)
(* of a dependent or a failed health check), the pass has set the state to *)
(* Error and has issued the status update with it; unless that update      *)
(* failed the stored state is Error, the state of the Starting/Error       *)
(* handler.                                                                *)
C26_RunningErrorIsRecorded ==
    RunningFailedPass =>
        /\ last.final.state = "Error"
        /\ Issued("UpdateObjectStoreStatus")
        /\ "UpdateObjectStoreStatus" \notin last.fails => store.state = "Error"

\* the lookup of the service failed in a pass on a Running ObjectStore
C26_Witness ==
    /\ RunningFailedPass
    /\ last.exit = "findService" /\ "GetService" \in last.fails
    /\ store.state = "Error"

\* the contexts in which the Starting/Error handler calls a get-or-create:
\* any state the ObjectStore may have at that point, any failing calls
GetOrCreateInputs ==
    {[NewContext(ControllerID, fails) EXCEPT !.store.state = st] :
        fails \in FailSets, st \in {"Starting", "Error"}}

Dependents(c) == [pvc |-> c.pvc, vol |-> c.vol, pv |-> c.pv, dpl |-> c.dpl, svc |-> c.svc]

\* the contract of the get-or-create Op of the dependent kind on input c;
\* reads are the lookups the create makes before it is issued
Contract(Op(_), c, kind, lookup, create, reads) ==
    LET r == Op(c)
    IN  IF lookup \in c.fails
        THEN /\ r.calls = << >> /\ r.ret = "err"
             /\ r.store = c.store /\ Dependents(r) = Dependents(c)
        ELSE IF c[kind].exists
        THEN /\ r.calls = << >> /\ r.ret = "ok"
             /\ r.store = c.store /\ Dependents(r) = Dependents(c)
        ELSE IF reads \cap c.fails # {}
        THEN /\ r.calls = << >> /\ r.ret = "err"
             /\ r.store = c.store /\ Dependents(r) = Dependents(c)
        ELSE /\ r.calls = <<create>>
             /\ IF create \in c.fails
                THEN r.ret = "err" /\ r.store = c.store /\ Dependents(r) = Dependents(c)
                ELSE r.ret = "ok" /\ r.store.state = "Starting" /\ r[kind].exists

(* C27, as claimed: each of the five get-or-create operations issues       *)
(* exactly one create when its lookup answers not-found.                   *)
C27_OneCreateAfterNotFound ==
    store.exists =>
        \A c \in GetOrCreateInputs :
            LET NotFound(kind, lookup) == lookup \notin c.fails /\ ~c[kind].exists
            IN  /\ NotFound("pvc", "GetPersistentVolumeClaim")
                      => getOrCreatePVC(c).calls = <<"CreatePersistentVolumeClaim">>
                /\ NotFound("vol", "GetVolume")
                      => getOrCreateVolume(c).calls = <<"CreateVolume">>
                /\ NotFound("pv", "GetPersistentVolume")
                      => getOrCreatePV(c).calls = <<"CreatePersistentVolume">>
                /\ NotFound("dpl", "GetDeployment")
                      => getOrCreateDeployment(c).calls = <<"CreateDeployment">>
                /\ NotFound("svc", "GetService")
                      => getOrCreateService(c).calls = <<"CreateService">>

(* C27, amended: each get-or-create obeys one contract. Lookup finds the   *)
(* resource: nothing is written. Lookup fails with another error: no       *)
(* create, state unchanged, error returned. Lookup answers not-found:      *)
(* exactly one create is issued and on its success the state is Starting   *)
(* afterwards, on its failure the error is returned; but the create of the *)
(* deployment is preceded by the reads of the credential secret and of the *)
(* registry-secret setting, and when one of them fails no create is issued *)
(* and the error is returned.                                              *)
C27_GetOrCreateContract ==
    store.exists =>
        \A c \in GetOrCreateInputs :
            /\ Contract(getOrCreatePVC, c, "pvc",
                        "GetPersistentVolumeClaim", "CreatePersistentVolumeClaim", {})
            /\ Contract(getOrCreateVolume, c, "vol", "GetVolume", "CreateVolume", {})
            /\ Contract(getOrCreatePV, c, "pv",
                        "GetPersistentVolume", "CreatePersistentVolume", {})
            /\ Contract(getOrCreateDeployment, c, "dpl",
                        "GetDeployment", "CreateDeployment", {"GetSecret", "GetSetting"})
            /\ Contract(getOrCreateService, c, "svc", "GetService", "CreateService", {})

\* a pass in state Error found the claim, issued creates for what was
\* missing, the create of the deployment among them, and left the state
\* Starting
C27_Witness ==
    /\ StartingPass /\ last.pre.store.state = "Error"
    /\ last.pre.pvc.exists /\ ~last.pre.dpl.exists
    /\ Issued("CreateDeployment") /\ "CreateDeployment" \notin last.fails
    /\ dpl.exists
    /\ store.state = "Starting"

\* the step of handleStarting that issues a create, and the step at which a
\* pass returned its error
StepOfCreate ==
    [CreatePersistentVolumeClaim |-> 1, CreateVolume |-> 2, CreatePersistentVolume |-> 3,
     CreateDeployment |-> 4, CreateService |-> 5, CreateIngress |-> 6]
StepOfExit ==
    [getOrCreatePVC |-> 1, getOrCreateVolume |-> 2, getOrCreatePV |-> 3,
     getOrCreateDeployment |-> 4, getOrCreateService |-> 5, getOrCreateS3Endpoints |-> 6]

FailedAtStep(k) ==
    /\ IsPass /\ last.ret = "err"
    /\ last.exit \in DOMAIN StepOfExit /\ StepOfExit[last.exit] = k

(* C28: dependent resources are created in dependency order, under every   *)
(* set of failing store calls and from every partly created cluster: the   *)
(* create of the storage volume is issued only when the claim exists, of   *)
(* the bound volume only when the storage volume exists, of the deployment *)
(* only when claim, storage volume and bound volume exist, of the service  *)
(* and of an ingress only when the deployment exists; and a pass that      *)
(* fails at one step issues no create of a later step and leaves the later *)
(* resources as it found them.                                             *)
C28_DependencyOrder ==
    IsPass =>
        /\ Issued("CreateVolume") => pvc.exists
        /\ Issued("CreatePersistentVolume") => vol.exists
        /\ Issued("CreateDeployment") => pvc.exists /\ vol.exists /\ pv.exists
        /\ Issued("CreateService") => dpl.exists
        /\ Issued("CreateIngress") => dpl.exists
        /\ \A k \in 1..6 : FailedAtStep(k) =>
               /\ \A call \in Creates : Issued(call) => StepOfCreate[call] <= k
               /\ k < 2 => vol = last.pre.vol
               /\ k < 3 => pv = last.pre.pv
               /\ k < 4 => dpl = last.pre.dpl
               /\ k < 5 => svc = last.pre.svc
               /\ k < 6 => ings = last.pre.ings

\* a pass on a cluster that an earlier pass left partly created (the claim,
\* nothing else): it creates the storage volume and the bound volume, fails
\* at the deployment and creates neither service nor ingress
C28_Witness ==
    /\ FailedAtStep(4)
    /\ last.pre.pvc.exists /\ ~last.pre.vol.exists /\ ~last.pre.pv.exists
    /\ ~last.pre.dpl.exists /\ ~last.pre.svc.exists
    /\ Issued("CreateVolume") /\ Issued("CreatePersistentVolume")
    /\ vol.exists /\ pv.exists
    /\ ~dpl.exists /\ ~svc.exists /\ ings = {}

----------------------------------------------------------------------------
(* SpecEvents: the change notifications of the dependent resources.        *)
(* The informers hand every added, updated or deleted Deployment, Service, *)
(* Storage Claim and Storage Volume to a handler, which walks the owner    *)
(* references to the ObjectStore and adds its key to the queue. The object *)
(* of the event and, for a volume, the claim the cache holds are inputs;   *)
(* the ObjectStore cache holds the ObjectStore of the model, if it exists. *)

\* owner references an object carries at most
MaxRefs == 2

Namespace == "default"              \* osc.namespace
StoreName == "store"                \* the ObjectStore behind StoreKey
ClaimName == "pvc-store"            \* genPVCName of it

Kinds == {"ObjectStore", "PersistentVolumeClaim"}
Names == {StoreName, ClaimName}
OwnerReferences == [kind : Kinds, name : Names]

RECURSIVE SeqsUpTo(_, _)
SeqsUpTo(S, n) ==
    IF n = 0 THEN {<< >>}
    ELSE LET T == SeqsUpTo(S, n - 1)
         IN  T \cup {Append(t, x) : t \in {u \in T : Len(u) = n - 1}, x \in S}

RefLists == SeqsUpTo(OwnerReferences, MaxRefs)

\* the metadata a handler reads of the object of an event; OwnerID is read
\* of a volume only
Objects ==
    [namespace : {Namespace, "kube-system"}, ownerRefs : RefLists, ownerID : {NoOwner}]
Volumes ==
    [namespace : {Namespace}, ownerRefs : RefLists, ownerID : ControllerIDs]

\* what the claim cache answers for ClaimName: no claim, or a claim with
\* these owner references
NoClaim == [exists |-> FALSE, ownerRefs |-> << >>]
CachedClaims == {NoClaim} \cup {[exists |-> TRUE, ownerRefs |-> r] : r \in RefLists}

\* GetObjectStoreRO and the key of the ObjectStore found; NoKey for an error
GetObjectStoreRO(name) ==
    IF store.exists /\ name = StoreName THEN StoreKey ELSE NoKey

\* GetPersistentVolumeClaimRO in the controller's namespace
GetPersistentVolumeClaimRO(cached, name) ==
    IF cached.exists /\ name = ClaimName THEN cached ELSE NoClaim

\* the handler hands key to the queue, or returns without (NoKey); the
\* event is recorded in last
Notified(handler, obj, cached, key) ==
    /\ queue' = IF key = NoKey THEN queue ELSE Add(queue, key)
    /\ last' = [kind |-> "event", handler |-> handler, obj |-> obj,
                claim |-> cached, key |-> key, had |-> store.exists]
    /\ UNCHANGED proc /\ ClusterUnchanged /\ QueueBookkeeping

enqueueDeployment(dpl_) ==
    Notified("enqueueDeployment", dpl_, NoClaim,
        IF dpl_.namespace # Namespace \/ Len(dpl_.ownerRefs) < 1 THEN NoKey
        ELSE GetObjectStoreRO(dpl_.ownerRefs[1].name))

enqueueService(svc_) ==
    Notified("enqueueService", svc_, NoClaim,
        IF svc_.namespace # Namespace \/ Len(svc_.ownerRefs) < 1 THEN NoKey
        ELSE GetObjectStoreRO(svc_.ownerRefs[1].name))

enqueuePVC(pvc_) ==
    Notified("enqueuePVC", pvc_, NoClaim,
        IF pvc_.namespace # Namespace \/ Len(pvc_.ownerRefs) < 1 THEN NoKey
        ELSE GetObjectStoreRO(pvc_.ownerRefs[1].name))

\* a volume handler that does not compare the owner of the volume
enqueueVolumeAnyOwner(vol_, cached) ==
    LET claim == GetPersistentVolumeClaimRO(cached, vol_.ownerRefs[1].name)
    IN  Notified("enqueueVolume", vol_, cached,
            IF Len(vol_.ownerRefs) < 1 THEN NoKey
            ELSE IF ~claim.exists THEN NoKey
            ELSE IF Len(claim.ownerRefs) < 1 THEN NoKey
            ELSE GetObjectStoreRO(claim.ownerRefs[1].name))

enqueueVolume(vol_, cached) ==
    LET claim == GetPersistentVolumeClaimRO(cached, vol_.ownerRefs[1].name)
    IN  Notified("enqueueVolume", vol_, cached,
            IF Len(vol_.ownerRefs) < 1 \/ ControllerID # vol_.ownerID THEN NoKey
            ELSE IF ~claim.exists THEN NoKey
            ELSE IF Len(claim.ownerRefs) < 1 THEN NoKey
            ELSE GetObjectStoreRO(claim.ownerRefs[1].name))

InitEvents ==
    /\ store \in {NoStore, NewStore("Running", << >>, TRUE)}
    /\ InitNothing
    /\ InitBookkeeping

NextEvents ==
    \/ \E obj \in Objects : enqueueDeployment(obj)
    \/ \E obj \in Objects : enqueueService(obj)
    \/ \E obj \in Objects : enqueuePVC(obj)
    \/ \E obj \in Volumes, cached \in CachedClaims : enqueueVolume(obj, cached)

SpecEvents == InitEvents /\ [][NextEvents]_vars

----------------------------------------------------------------------------
(* Properties of the event handlers (SpecEvents) *)

IsEvent(handlers) == last.kind = "event" /\ last.handler \in handlers
DirectHandlers == {"enqueueDeployment", "enqueueService", "enqueuePVC"}

\* r is an owner reference to the ObjectStore of the model
RefersToStore(r) == r.kind = "ObjectStore" /\ r.name = StoreName
\* r is an owner reference to the claim of the model
RefersToClaim(r) == r.kind = "PersistentVolumeClaim" /\ r.name = ClaimName

(* C29: a change notification for a Deployment, Service or Storage Claim   *)
(* enqueues a key only when the resource lies in the controller's          *)
(* namespace and an owner reference of it refers to an existing            *)
(* ObjectStore, and the key is that ObjectStore's; a resource outside the  *)
(* namespace, without owner reference or owned by something that is not an *)
(* ObjectStore enqueues nothing.                                           *)
C29_EnqueuesOnlyForOwner ==
    (IsEvent(DirectHandlers) /\ last.key # NoKey) =>
        /\ last.obj.namespace = Namespace
        /\ last.had
        /\ \E i \in 1..Len(last.obj.ownerRefs) : RefersToStore(last.obj.ownerRefs[i])
        /\ last.key = StoreKey

\* the two-hop walk of a volume event, by the names of the first owner
\* references
WalkReachesStore ==
    /\ Len(last.obj.ownerRefs) >= 1
    /\ last.obj.ownerRefs[1].name = ClaimName /\ last.claim.exists
    /\ Len(last.claim.ownerRefs) >= 1
    /\ last.claim.ownerRefs[1].name = StoreName /\ last.had

(* C30: a change notification for a Storage Volume enqueues the key of the *)
(* ObjectStore reached by the walk from the volume over its owning claim   *)
(* to the claim's owning ObjectStore, and enqueues nothing when the volume *)
(* has no owner reference, when the claim is not found or has no owner     *)
(* reference, when the ObjectStore is not found, or when the owner of the  *)
(* volume is not this controller.                                          *)
C30_VolumeWalk ==
    IsEvent({"enqueueVolume"}) =>
        /\ last.key \in {NoKey, StoreKey}
        /\ last.key = StoreKey <=>
               (WalkReachesStore /\ last.obj.ownerID = ControllerID)
        /\ last.key = StoreKey => StoreKey \in queue.dirty
        /\ last.obj.ownerRefs = << >> => last.key = NoKey
        /\ ~last.claim.exists => last.key = NoKey
        /\ last.claim.ownerRefs = << >> => last.key = NoKey
        /\ ~last.had => last.key = NoKey
        /\ last.obj.ownerID # ControllerID => last.key = NoKey

\* a volume of this controller, owned by the claim, which the ObjectStore
\* owns: the key of the ObjectStore is pending
C30_Witness ==
    /\ IsEvent({"enqueueVolume"})
    /\ last.obj.ownerID = ControllerID
    /\ Len(last.obj.ownerRefs) = 1 /\ RefersToClaim(last.obj.ownerRefs[1])
    /\ Len(last.claim.ownerRefs) = 1 /\ RefersToStore(last.claim.ownerRefs[1])
    /\ last.key = StoreKey
    /\ StoreKey \in Queued(queue)

----------------------------------------------------------------------------
(* Properties of deletion, status and endpoints (Spec) *)

FinalizerRemoved ==
    Issued("RemoveFinalizerForObjectStore")
        \/ (last.pre.store.finalizer /\ ~store.finalizer)

\* a pass that acted on an ObjectStore with the deletion timestamp set
DeletingPass == IsPass /\ ActedPass /\ last.pre.store.deleting

(* C31: the finalizer is removed only by a pass that finds the deletion    *)
(* timestamp set and the state already Terminating. The pass that finds    *)
(* the deletion timestamp with another state only sets the state to        *)
(* Terminating: it issues no write but the status update and leaves the    *)
(* finalizer. No pass removes the finalizer of an ObjectStore without      *)
(* deletion timestamp.                                                     *)
C31_FinalizerOnlyWhenTerminating ==
    IsPass =>
        /\ FinalizerRemoved =>
               last.pre.store.deleting /\ last.pre.store.state = "Terminating"
        /\ (DeletingPass /\ last.pre.store.state # "Terminating") =>
               /\ last.final.state = "Terminating"
               /\ last.calls = <<"UpdateObjectStoreStatus">>
               /\ store.finalizer = last.pre.store.finalizer
               /\ last.ret = "ok"

\* the pass after the one that set Terminating removes the finalizer
C31_Witness ==
    /\ DeletingPass /\ last.pre.store.state = "Terminating"
    /\ last.pre.store.finalizer /\ ~store.finalizer
    /\ last.calls = <<"RemoveFinalizerForObjectStore">>

\* a worker has returned from a pass on k whose status update failed: the
\* state change the pass computed is not in the store
StatusWriteLost(k) ==
    \E w \in Workers : proc.worker[w] = "requeue" /\ proc.key[w] = k /\ proc.lost[w]

PreviousEndpoints == {<< >>, <<InternalEndpoint>>, <<"d1">>}

\* the endpoint list the Starting/Error handler leaves when the previous
\* status held prev and no store call fails
EndpointsAfter(prev) ==
    handleStarting([NewContext(ControllerID, {})
                       EXCEPT !.store.statusEndpoints = prev]).store.statusEndpoints

(* C33: the endpoint list a pass writes is a projection of the spec and of *)
(* the dependents observed: on the same spec and the same dependents a     *)
(* Starting/Error pass produces the same endpoint list whatever endpoint   *)
(* list the previous status held.                                          *)
C33_EndpointsAreProjection ==
    (store.exists /\ ~store.deleting /\ store.state \in {"Starting", "Error"}) =>
        \A p, q \in PreviousEndpoints : EndpointsAfter(p) = EndpointsAfter(q)

NoDuplicate(seq) == \A i, j \in 1..Len(seq) : seq[i] = seq[j] => i = j

(* C37: in every reachable state the endpoint list of the status holds no  *)
(* entry twice, and a pass adds the cluster-internal endpoint only to an   *)
(* empty list.                                                             *)
C37_NoDuplicateEndpoint ==
    /\ NoDuplicate(store.statusEndpoints)
    /\ (IsPass /\ InternalEndpoint \in Range(store.statusEndpoints)
               /\ InternalEndpoint \notin Range(last.pre.store.statusEndpoints))
           => store.statusEndpoints = <<InternalEndpoint>>

DependentsUnchanged ==
    /\ pvc = last.pre.pvc /\ vol = last.pre.vol /\ pv = last.pre.pv
    /\ dpl = last.pre.dpl /\ svc = last.pre.svc /\ ings = last.pre.ings

(* C36: once the deletion timestamp is set no pass creates or updates a    *)
(* dependent resource, whatever the state and the target state: the only   *)
(* writes of such a pass are the status update that sets Terminating and   *)
(* the removal of the finalizer.                                           *)
C36_DeletingPassWritesNoDependent ==
    (IsPass /\ last.pre.store.exists /\ last.pre.store.deleting) =>
        /\ Range(last.calls)
               \subseteq {"UpdateObjectStoreStatus", "RemoveFinalizerForObjectStore"}
        /\ DependentsUnchanged
        /\ Issued("UpdateObjectStoreStatus") =>
               last.final = [state |-> "Terminating",
                             endpoints |-> last.pre.store.statusEndpoints]

\* a Starting ObjectStore with target Running and no deployment is deleted:
\* the pass creates nothing and sets Terminating
C36_Witness ==
    /\ DeletingPass
    /\ last.pre.store.state = "Starting" /\ last.pre.store.target = "Running"
    /\ ~last.pre.dpl.exists /\ ~dpl.exists
    /\ last.calls = <<"UpdateObjectStoreStatus">>
    /\ store.state = "Terminating"

OnSpecImages(d, s) == d.image = s.image /\ d.uiImage = s.uiImage

(* C38: a pass that sets the state to Running, or leaves it Running and    *)
(* returns success, observed the deployment with both containers on the    *)
(* images of the spec and issued no deployment update; a pass that finds   *)
(* an image mismatch and updates the deployment leaves the state Starting. *)
C38_RunningOnlyOnSpecImages ==
    (IsPass /\ ActedPass /\ ~last.pre.store.deleting /\ last.ret = "ok") =>
        /\ last.final.state = "Running" =>
               /\ OnSpecImages(last.pre.dpl, last.pre.store)
               /\ ~Issued("UpdateDeployment")
        /\ (Issued("UpdateDeployment") /\ last.pre.dpl.replicas = Ptr(1)
               /\ ~OnSpecImages(last.pre.dpl, last.pre.store))
              => last.final.state = "Starting"

----------------------------------------------------------------------------
(* SpecHeal: an ObjectStore with target state Running waits in Starting or *)
(* Error: all its dependents exist, created by this controller (in its     *)
(* namespace, with the owner references the creates set, the volume owned  *)
(* by this controller), and at least one of them is not healthy. The       *)
(* cluster heals them one by one in any order; each change is notified to  *)
(* the handler the constructor registered for the kind, and the worker     *)
(* makes a pass for each key it gets. No informer is registered for        *)
(* persistent volumes. No store call fails.                                *)

\* the handler of the kind adds key, or returns without (NoKey)
Notify(key) == queue' = IF key = NoKey THEN queue ELSE Add(queue, key)

HealBookkeeping ==
    /\ last' = NoPass
    /\ UNCHANGED <<env, run, passes, trip, proc>>

\* the persistent volume becomes Bound: no handler, nothing is enqueued
HealPersistentVolume ==
    /\ PersistentVolumePhase(TRUE)
    /\ UNCHANGED queue
    /\ HealBookkeeping

\* the claim becomes Bound: enqueuePVC, the owner reference names the
\* ObjectStore
HealClaim ==
    /\ ClaimPhase(TRUE)
    /\ Notify(GetObjectStoreRO(StoreName))
    /\ HealBookkeeping

\* the volume is not faulted any more: enqueueVolume, from the volume over
\* the claim to the ObjectStore
HealVolume ==
    /\ vol.exists /\ vol.faulted
    /\ vol' = [vol EXCEPT !.faulted = FALSE]
    /\ UNCHANGED <<store, pvc, pv, dpl, svc, ings>>
    /\ Notify(IF ControllerID # vol.owner \/ ~pvc.exists THEN NoKey
              ELSE GetObjectStoreRO(StoreName))
    /\ HealBookkeeping

\* the pod of the deployment becomes ready: enqueueDeployment
HealDeployment ==
    /\ DeploymentStatus([statusReplicas |-> 1, available |-> 1, unavailable |-> 0])
    /\ Notify(GetObjectStoreRO(StoreName))
    /\ HealBookkeeping

\* processNextWorkItem: Get, reconcile, Forget or AddRateLimited, Done
HealPass ==
    /\ CanGet(queue)
    /\ Reconcile(ControllerID, {})
    /\ LET k == Head(queue.items)
           q == Get(queue)
       IN  queue' = IF last'.ret = "err"
                    THEN Done(AddRateLimited(q, k), k)
                    ELSE Done(Forget(q, k), k)
    /\ UNCHANGED <<env, run, passes, trip, proc>>

AllHealthy ==
    /\ pvc.exists /\ pvc.bound
    /\ vol.exists /\ ~vol.faulted
    /\ pv.exists /\ pv.bound
    /\ dpl.exists /\ DeploymentReady(dpl, store)
    /\ svc.exists /\ Range(store.endpoints) \subseteq ings

InitHeal ==
    /\ \E eps \in EndpointChoices, st \in {"Starting", "Error"} :
         /\ store = [NewStore("Running", eps, TRUE) EXCEPT !.state = st,
                        !.statusEndpoints = PublishedEndpoints(eps)]
         /\ ings = Range(eps)
    /\ pvc \in [exists : {TRUE}, bound : BOOLEAN]
    /\ vol \in [exists : {TRUE}, faulted : BOOLEAN, owner : {ControllerID}]
    /\ pv \in [exists : {TRUE}, bound : BOOLEAN]
    /\ \E o \in DeploymentObservations :
         dpl = [exists |-> TRUE, replicas |-> Ptr(1), image |-> "v1", uiImage |-> "v1",
                statusReplicas |-> o.statusReplicas, available |-> o.available,
                unavailable |-> o.unavailable]
    /\ svc = [exists |-> TRUE]
    /\ ~AllHealthy
    /\ InitBookkeeping

NextHeal ==
    \/ HealClaim
    \/ HealPersistentVolume
    \/ HealVolume
    \/ HealDeployment
    \/ HealPass

\* the cluster heals every dependent, and the worker is scheduled: it
\* empties the queue again and again
FairHeal ==
    /\ WF_vars(HealClaim)
    /\ WF_vars(HealPersistentVolume)
    /\ WF_vars(HealVolume)
    /\ WF_vars(HealDeployment)
    /\ []<>(~CanGet(queue))

SpecHeal == InitHeal /\ [][NextHeal]_vars /\ FairHeal

----------------------------------------------------------------------------
(* Properties of healing (SpecHeal) *)

(* C35: an ObjectStore with target state Running that waits in Starting or *)
(* Error for a dependent: once claim, storage volume, bound volume and     *)
(* deployment have become healthy, in any order, a change notification has *)
(* enqueued its key and the ObjectStore reaches Running.                   *)
C35_HealedReachesRunning == AllHealthy ~> (store.state = "Running")

----------------------------------------------------------------------------
(* SpecRace: two controller processes reconcile the same new ObjectStore.  *)
(* Each store call of a pass is one step, so the passes of the two         *)
(* processes interleave call by call. proc holds, per process, the         *)
(* position in the pass (pc), what the pass holds in memory (local: the    *)
(* ObjectStore it read and changes, the status and resource version it     *)
(* read, the dependents its lookups and creates returned) and whether the  *)
(* key is pending in its queue; rv is the resource version of the          *)
(* ObjectStore in the store, created counts the creates that succeeded and *)
(* raced tells whether a create was answered AlreadyExists.                *)
(* The cluster binds claim and persistent volume, assigns the volume to a  *)
(* process and reports the pod ready; every change is notified to the      *)
(* handlers registered for the kind, and the informer of the ObjectStores  *)
(* resyncs periodically. No store call fails for another reason than       *)
(* AlreadyExists or Conflict.                                              *)

DependentKinds == <<"pvc", "vol", "pv", "dpl", "svc">>

NoLocal ==
    [store |-> NoStore, existing |-> Status(NoStore), rv |-> 0,
     pvc |-> NoPVC, vol |-> NoVolume, pv |-> NoPV, dpl |-> NoDeployment,
     svc |-> NoService, k |-> 1, ret |-> "ok"]

CreatedOf(k, s) ==
    CASE k = "pvc" -> CreatedPVC
      [] k = "vol" -> CreatedVolume
      [] k = "pv" -> CreatedPV
      [] k = "dpl" -> CreatedDeployment(s)
      [] k = "svc" -> CreatedService

\* the processes whose handler enqueues the key on a change of kind k: a
\* volume is enqueued by its owner only, a persistent volume by nobody
Handlers(k) ==
    CASE k \in {"store", "pvc", "dpl", "svc"} -> ControllerIDs
      [] k = "vol" -> {p \in ControllerIDs : p = vol'.owner}
      [] k = "pv" -> {}

EnqueueAt(pending, ps) == [p \in ControllerIDs |-> pending[p] \/ p \in ps]

RaceBookkeeping ==
    /\ last' = NoPass
    /\ UNCHANGED <<env, run, passes, trip, queue>>

\* processNextWorkItem: Get
RaceGet(p) ==
    /\ proc.pc[p] = "idle" /\ proc.pending[p]
    /\ proc' = [proc EXCEPT !.pc[p] = "GetObjectStore", !.pending[p] = FALSE,
                            !.local[p] = NoLocal]
    /\ ClusterUnchanged /\ RaceBookkeeping

\* reconcile: GetObjectStore, and the copy of the status for the deferred
\* update
RaceGetObjectStore(p) ==
    /\ proc.pc[p] = "GetObjectStore"
    /\ proc' = [proc EXCEPT !.pc[p] = "isResponsibleFor",
                            !.local[p].store = store,
                            !.local[p].existing = Status(store),
                            !.local[p].rv = proc.rv]
    /\ ClusterUnchanged /\ RaceBookkeeping

\* reconcile: isResponsibleFor (GetVolumeRO), then the switch on the state;
\* initializeObjectStore and handleRunning make no call that the other
\* process could interleave with to a different result
RaceIsResponsibleFor(p) ==
    /\ proc.pc[p] = "isResponsibleFor"
    /\ LET c == [NewContext(p, {}) EXCEPT !.store = proc.local[p].store]
           d == IF c.store.state \in {"Starting", "Error"} THEN c ELSE dispatch(c)
       IN  proc' =
             IF ~isResponsibleFor(c)
             THEN [proc EXCEPT !.pc[p] = "idle"]
             ELSE IF c.store.state \in {"Starting", "Error"}
             THEN [proc EXCEPT !.pc[p] = "get", !.local[p].k = 1]
             ELSE [proc EXCEPT !.pc[p] = "UpdateObjectStoreStatus",
                              !.local[p].store = d.store,
                              !.local[p].ret = d.ret]
    /\ ClusterUnchanged /\ RaceBookkeeping

\* after the last get-or-create: the internal endpoint, the health checks
\* on the dependents the pass holds, and Running if they all pass
RaceChecks(p, l) ==
    LET c == AddInternalEndpoint(
                 [NewContext(p, {}) EXCEPT !.store = l.store, !.pvc = l.pvc,
                                           !.vol = l.vol, !.pv = l.pv,
                                           !.dpl = l.dpl, !.svc = l.svc])
    IN  IF checkPVC(c) /\ checkVolume(c) /\ checkPV(c)
           /\ checkDeployment(c).exit = "healthy"
        THEN [l EXCEPT !.store = [c.store EXCEPT !.state = "Running"]]
        ELSE [l EXCEPT !.store = c.store]

\* the next step of handleStarting once the dependent of kind k is held
RaceNext(p, l) ==
    IF l.k < Len(DependentKinds)
    THEN [proc EXCEPT !.pc[p] = "get", !.local[p] = [l EXCEPT !.k = @ + 1]]
    ELSE [proc EXCEPT !.pc[p] = "UpdateObjectStoreStatus",
                      !.local[p] = RaceChecks(p, l)]

\* getOrCreate: the lookup
RaceLookup(p) ==
    /\ proc.pc[p] = "get"
    /\ LET l == proc.local[p]
           k == DependentKinds[l.k]
       IN  proc' = IF Cluster[k].exists
                   THEN RaceNext(p, [l EXCEPT ![k] = Cluster[k]])
                   ELSE [proc EXCEPT !.pc[p] = "create"]
    /\ ClusterUnchanged /\ RaceBookkeeping

\* a create that overwrites what the other process created
RaceCreateOverwrites(p) ==
    /\ proc.pc[p] = "create"
    /\ LET l == proc.local[p]
           k == DependentKinds[l.k]
           new == CreatedOf(k, l.store)
           held == [l EXCEPT ![k] = new, !.store.state = "Starting"]
       IN  /\ pvc' = IF k = "pvc" THEN new ELSE pvc
           /\ vol' = IF k = "vol" THEN new ELSE vol
           /\ pv' = IF k = "pv" THEN new ELSE pv
           /\ dpl' = IF k = "dpl" THEN new ELSE dpl
           /\ svc' = IF k = "svc" THEN new ELSE svc
           /\ proc' = [RaceNext(p, held) EXCEPT
                          !.created[k] = @ + 1,
                          !.pending = EnqueueAt(@, Handlers(k))]
    /\ UNCHANGED <<store, ings>>
    /\ RaceBookkeeping

\* getOrCreate: the create after a not-found. AlreadyExists is returned
\* as an error of the pass
RaceCreate(p) ==
    /\ proc.pc[p] = "create"
    /\ LET l == proc.local[p]
           k == DependentKinds[l.k]
           new == CreatedOf(k, l.store)
           held == [l EXCEPT ![k] = new, !.store.state = "Starting"]
       IN  IF Cluster[k].exists
           THEN /\ proc' = [proc EXCEPT !.pc[p] = "UpdateObjectStoreStatus",
                                        !.local[p].ret = "err",
                                        !.raced = TRUE]
                /\ UNCHANGED <<pvc, vol, pv, dpl, svc>>
           ELSE /\ pvc' = IF k = "pvc" THEN new ELSE pvc
                /\ vol' = IF k = "vol" THEN new ELSE vol
                /\ pv' = IF k = "pv" THEN new ELSE pv
                /\ dpl' = IF k = "dpl" THEN new ELSE dpl
                /\ svc' = IF k = "svc" THEN new ELSE svc
                /\ proc' = [RaceNext(p, held) EXCEPT
                               !.created[k] = @ + 1,
                               !.pending = EnqueueAt(@, Handlers(k))]
    /\ UNCHANGED <<store, ings>>
    /\ RaceBookkeeping

\* the deferred status update, which answers Conflict when the resource
\* version the pass read is not the current one (the error is dropped);
\* then processNextWorkItem: Forget, or AddRateLimited, whose delay
\* elapses, and Done
RaceUpdateObjectStoreStatus(p) ==
    /\ proc.pc[p] = "UpdateObjectStoreStatus"
    /\ LET l == proc.local[p]
           changed == Status(l.store) # l.existing
           written == changed /\ l.rv = proc.rv
           requeue == IF l.ret = "err" THEN {p} ELSE {}
       IN  /\ store' = IF written
                       THEN [store EXCEPT !.state = l.store.state,
                                          !.statusEndpoints = l.store.statusEndpoints]
                       ELSE store
           /\ proc' = [proc EXCEPT
                          !.pc[p] = "idle",
                          !.rv = IF written THEN @ + 1 ELSE @,
                          !.pending = EnqueueAt(@, requeue \cup
                                         IF written THEN ControllerIDs ELSE {})]
    /\ UNCHANGED <<pvc, vol, pv, dpl, svc, ings>>
    /\ RaceBookkeeping

\* the cluster: a change of a dependent, notified to the handlers
RaceChange(k) ==
    /\ proc' = [proc EXCEPT !.pending = EnqueueAt(@, Handlers(k))]
    /\ RaceBookkeeping

RaceBindClaim == ClaimPhase(TRUE) /\ RaceChange("pvc")
RaceBindPersistentVolume == PersistentVolumePhase(TRUE) /\ RaceChange("pv")
RaceAssignVolume ==
    /\ vol.owner = NoOwner
    /\ \E o \in ControllerIDs : VolumeOwner(o)
    /\ RaceChange("vol")
RaceDeploymentReady ==
    /\ DeploymentStatus([statusReplicas |-> 1, available |-> 1, unavailable |-> 0])
    /\ RaceChange("dpl")

\* the resync of the ObjectStore informer (every OneHour): the update
\* handler enqueues the key
RaceResync(p) ==
    /\ ~proc.pending[p]
    /\ proc' = [proc EXCEPT !.pending[p] = TRUE]
    /\ ClusterUnchanged /\ RaceBookkeeping

InitRace ==
    /\ store = NewStore("Running", << >>, TRUE)
    /\ InitNothing
    /\ last = NoPass /\ queue = NewQueue
    /\ env = 0 /\ run = 0 /\ passes = 0 /\ trip = << >>
    /\ proc = [pc |-> [p \in ControllerIDs |-> "idle"],
               local |-> [p \in ControllerIDs |-> NoLocal],
               pending |-> [p \in ControllerIDs |-> TRUE],
               rv |-> 0, raced |-> FALSE,
               created |-> [pvc |-> 0, vol |-> 0, pv |-> 0, dpl |-> 0, svc |-> 0]]

NextRace ==
    \/ \E p \in ControllerIDs : RaceGet(p)
    \/ \E p \in ControllerIDs : RaceGetObjectStore(p)
    \/ \E p \in ControllerIDs : RaceIsResponsibleFor(p)
    \/ \E p \in ControllerIDs : RaceLookup(p)
    \/ \E p \in ControllerIDs : RaceCreate(p)
    \/ \E p \in ControllerIDs : RaceUpdateObjectStoreStatus(p)
    \/ \E p \in ControllerIDs : RaceResync(p)
    \/ RaceBindClaim
    \/ RaceBindPersistentVolume
    \/ RaceAssignVolume
    \/ RaceDeploymentReady

\* the processes are scheduled: a pending key is taken and a pass returns;
\* the resync comes round; the cluster makes the dependents healthy
FairRace ==
    /\ \A p \in ControllerIDs :
          /\ WF_vars(RaceGet(p))
          /\ WF_vars(RaceResync(p))
          /\ []<>(proc.pc[p] = "idle")
    /\ WF_vars(RaceBindClaim)
    /\ WF_vars(RaceBindPersistentVolume)
    /\ WF_vars(RaceAssignVolume)
    /\ WF_vars(RaceDeploymentReady)

SpecRace == InitRace /\ [][NextRace]_vars /\ FairRace

----------------------------------------------------------------------------
(* Properties of the race (SpecRace) *)

\* both processes are past the responsibility check of a pass on the new
\* ObjectStore, which both made while no volume existed
BothResponsible ==
    \A p \in ControllerIDs :
        /\ proc.pc[p] \in {"get", "create"}
        /\ ~proc.local[p].vol.exists

CreatedOnce == \A k \in DOMAIN proc.created : proc.created[k] = 1
CreatedAtMostOnce == \A k \in DOMAIN proc.created : proc.created[k] <= 1

\* a create of this process was answered AlreadyExists
LostRace(p) ==
    /\ proc.pc[p] = "UpdateObjectStoreStatus"
    /\ proc.local[p].ret = "err"

\* a process that makes its responsibility check while no volume exists
\* goes on with the pass
ResponsibleWithoutVolume ==
    \A p \in ControllerIDs :
        (proc.pc[p] = "isResponsibleFor" /\ proc'.pc[p] # "isResponsibleFor"
         /\ ~vol.exists)
            => proc'.pc[p] # "idle"

\* C34: when two processes reconcile the same new ObjectStore while no
\* volume exists, each of them goes on with its pass after the
\* responsibility check, no dependent is ever created twice (the second
\* create is answered AlreadyExists), and the ObjectStore reaches Running
\* and stays Running with every dependent created exactly once
C34_RaceReachesRunning ==
    /\ [][ResponsibleWithoutVolume]_vars
    /\ [](CreatedAtMostOnce)
    /\ <>[](store.state = "Running" /\ CreatedOnce)

\* the ObjectStore is Running although a create of one of the processes
\* was answered AlreadyExists
C34_Witness ==
    /\ store.state = "Running" /\ CreatedOnce
    /\ proc.raced
    /\ vol.owner \in ControllerIDs
====
